---------------------------- MODULE Spec2Model ----------------------------
(***************************************************************************)
(* Model of hpm-riscv-rt: the reset-to-main boot sequence (src/src/asm.rs, *)
(* src/src/lib.rs) and the CORE_LOCAL trap dispatcher (src/src/trap.rs).   *)
(*                                                                         *)
(* One hart.  `pc` is the position of the hart; every action is one        *)
(* instruction group or one statement of the source.                       *)
(***************************************************************************)
EXTENDS Integers, Sequences, FiniteSets, TLC

VARIABLES
    pc,            \* position of the hart (a label of the source)
    hpm67_fix,     \* cargo feature "hpm67-fix"
    pma_noncacheable, \* cargo feature "pma-noncacheable"
    debug_build,   \* debug_assert! is compiled in
    overridden,    \* handler symbols the application defines
    sym,           \* linker-provided symbols (addresses)
    mem,           \* data memory, word-aligned byte address -> word
    regs,          \* caller-saved registers ra, t0-t6, a0-a7
    sp,            \* stack pointer
    stack,         \* stack memory below _sstack, address -> word
    mtvec,         \* trap vector base
    mstatus,       \* [mie, mpie, sie, fs]
    mie,           \* set of interrupt codes enabled in the mie CSR
    mcause,        \* [exc, code] of the last trap, NoTrap before any
    mtval,         \* auxiliary trap value of the last trap
    mepc,          \* pc the last trap interrupted
    cache,         \* [ic, dc, inval, lines] L1 cache control and data lines
    pma,           \* [addr0, addr1, cfg0, val, fenced] PMA CSRs and local pmacfg0_val
    pma_writes,    \* log of PMA register writes, <<register, value>>
    plic,          \* [threshold, claimed, inten, vectored] PLIC registers
    loop_i,        \* loop counter of setup_interrupts
    misc,          \* [cy, vec_plic] mcounteren.CY and mmisc_ctl.VEC_PLIC
    calls,         \* handlers invoked by the current trap, in order
    trap_regs,     \* registers and sp at the instant of the last trap
    main_calls,    \* number of times main was entered
    pre_init_calls,\* number of times __pre_init was entered
    accesses,      \* loads and stores of the region loops, [op, addr], in order
    pma_reset,     \* the PMA registers as the run found them
    cache_reset,   \* the L1 caches as the run found them
    mem0           \* memory as it was when the run began

vars == <<pc, hpm67_fix, pma_noncacheable, debug_build, overridden, sym, mem,
          regs, sp, stack, mtvec, mstatus, mie, mcause, mtval, mepc, cache,
          pma, pma_writes, plic, loop_i, misc, calls, trap_regs, main_calls,
          pre_init_calls, accesses, pma_reset, cache_reset, mem0>>

---------------------------------------------------------------------------
(* Bounds of the model *)

\* words per region in the boot layout
RegionWords == 1
\* exception codes 0..MaxExcCode are raised (one past the 16-entry table)
MaxExcCode == 16
\* interrupt codes 0..MaxIntCode are raised (one past the 14-entry table)
MaxIntCode == 14
\* words of memory the copier is exercised on
MemWords == 4
\* largest word value held in the copier's memory
MaxVal == 1
\* width of an address in bits: the program's u32 scaled down so that every
\* intermediate of its address arithmetic is an integer the checker holds
AddrBits == 16

---------------------------------------------------------------------------
(* Program constants *)

WordSize == 4
FrameWords == 16
FrameBytes == FrameWords * WordSize
PlicSources == 128
PlicEnableWords == 4
IllegalInstructionCode == 2
RttWindow == 4096
ENTRY_NAPOT_NC_BUF == 15
ENTRY_NAPOT_NC_BUF_AMO == 47

\* Addresses and words are naturals below AddrSpace.
AddrSpace == 2 ^ AddrBits

\* TrapFrame field order = save order of CORE_LOCAL
RegNames == <<"ra", "t0", "t1", "t2", "t3", "t4", "t5", "t6",
              "a0", "a1", "a2", "a3", "a4", "a5", "a6", "a7">>
RegSet == {RegNames[i] : i \in 1..FrameWords}

NoTrap == [exc |-> FALSE, code |-> -1]


---------------------------------------------------------------------------
(* Linker-provided symbols *)

\* bytes per region of the boot layout
W == WordSize * RegionWords

\* Every region holds RegionWords words; load images lie in flash below the
\* RAM regions; the non-cacheable range is naturally aligned.
FullLayout ==
    [ sstack |-> 64 * W,
      sidata |-> 0, sifast |-> W, fast_data_load |-> 2 * W, nc_data_load |-> 3 * W,
      sdata |-> 4 * W, edata |-> 5 * W,
      sbss |-> 5 * W, ebss |-> 6 * W,
      sfast |-> 6 * W, efast |-> 7 * W,
      fast_data_start |-> 7 * W, fast_data_end |-> 8 * W,
      fast_bss_start |-> 8 * W, fast_bss_end |-> 9 * W,
      nc_data_start |-> 16 * W, nc_data_end |-> 17 * W,
      nc_bss_start |-> 17 * W, nc_bss_end |-> 18 * W,
      noncacheable_start |-> 16 * W, noncacheable_end |-> 18 * W,
      SEGGER_RTT |-> 5 * W, text |-> 128 * W ]

\* As FullLayout, with a non-cacheable range whose base is not aligned to
\* its length.
MisalignedLayout ==
    [ FullLayout EXCEPT !.nc_data_start = 17 * W, !.nc_data_end = 18 * W,
                        !.nc_bss_start = 18 * W, !.nc_bss_end = 19 * W,
                        !.noncacheable_start = 17 * W,
                        !.noncacheable_end = 19 * W ]

\* Every region empty (start = end) and no RTT control block linked.
EmptyLayout ==
    [ sstack |-> 64 * W,
      sidata |-> 0, sifast |-> 0, fast_data_load |-> 0, nc_data_load |-> 0,
      sdata |-> 4 * W, edata |-> 4 * W,
      sbss |-> 4 * W, ebss |-> 4 * W,
      sfast |-> 4 * W, efast |-> 4 * W,
      fast_data_start |-> 4 * W, fast_data_end |-> 4 * W,
      fast_bss_start |-> 4 * W, fast_bss_end |-> 4 * W,
      nc_data_start |-> 16 * W, nc_data_end |-> 16 * W,
      nc_bss_start |-> 16 * W, nc_bss_end |-> 16 * W,
      noncacheable_start |-> 16 * W, noncacheable_end |-> 16 * W,
      SEGGER_RTT |-> 0, text |-> 128 * W ]

BootLayouts == {FullLayout, MisalignedLayout, EmptyLayout}

\* The regions in the order the boot code initializes them.
Regions == <<"data", "bss", "fast", "fast_data", "fast_bss", "nc_data", "nc_bss">>
RegionSet == {Regions[i] : i \in 1..Len(Regions)}
AsmRegions == {"data", "bss", "fast", "fast_data", "fast_bss"}
CopyRegions == {"data", "fast", "fast_data", "nc_data"}

RegionStart(r) ==
    CASE r = "data" -> sym.sdata
      [] r = "bss" -> sym.sbss
      [] r = "fast" -> sym.sfast
      [] r = "fast_data" -> sym.fast_data_start
      [] r = "fast_bss" -> sym.fast_bss_start
      [] r = "nc_data" -> sym.nc_data_start
      [] r = "nc_bss" -> sym.nc_bss_start

RegionEnd(r) ==
    CASE r = "data" -> sym.edata
      [] r = "bss" -> sym.ebss
      [] r = "fast" -> sym.efast
      [] r = "fast_data" -> sym.fast_data_end
      [] r = "fast_bss" -> sym.fast_bss_end
      [] r = "nc_data" -> sym.nc_data_end
      [] r = "nc_bss" -> sym.nc_bss_end

\* load address of a copy-in region
RegionSrc(r) ==
    CASE r = "data" -> sym.sidata
      [] r = "fast" -> sym.sifast
      [] r = "fast_data" -> sym.fast_data_load
      [] r = "nc_data" -> sym.nc_data_load

\* labels: the head of region r's initialization and its loop body
InitPc(r) ==
    CASE r = "data" -> "init_data"
      [] r = "bss" -> "init_bss"
      [] r = "fast" -> "init_fast"
      [] r = "fast_data" -> "init_fast_data"
      [] r = "fast_bss" -> "init_fast_bss"
      [] r = "nc_data" -> "init_nc_data"
      [] r = "nc_bss" -> "init_nc_bss"

LoopPc(r) ==
    CASE r = "data" -> "loop_data"
      [] r = "bss" -> "loop_bss"
      [] r = "fast" -> "loop_fast"
      [] r = "fast_data" -> "loop_fast_data"
      [] r = "fast_bss" -> "loop_fast_bss"
      [] r = "nc_data" -> "loop_nc_data"
      [] r = "nc_bss" -> "loop_nc_bss"

\* DonePc without the .fast.bss loop: .fast.data falls through to the call
DonePcNoFastBss(r) ==
    CASE r = "data" -> "init_bss"
      [] r = "bss" -> "init_fast"
      [] r = "fast" -> "init_fast_data"
      [] r = "fast_data" -> "call_hpm_start_rust"
      [] r = "fast_bss" -> "call_hpm_start_rust"
      [] r = "nc_data" -> "init_nc_bss"
      [] r = "nc_bss" -> "call_setup_interrupts"

\* where control goes when region r is done
DonePc(r) ==
    CASE r = "data" -> "init_bss"
      [] r = "bss" -> "init_fast"
      [] r = "fast" -> "init_fast_data"
      [] r = "fast_data" -> "init_fast_bss"
      [] r = "fast_bss" -> "call_hpm_start_rust"
      [] r = "nc_data" -> "init_nc_bss"
      [] r = "nc_bss" -> "call_setup_interrupts"

\* word-aligned byte addresses of [lo, hi)
WordsIn(lo, hi) == {a \in lo..(hi - 1) : a % WordSize = 0}

\* addresses the boot layout s maps: the flash images and the RAM regions
BootAddrs(s) ==
    WordsIn(0, 4 * W) \cup WordsIn(4 * W, 9 * W) \cup WordsIn(16 * W, 19 * W)

\* flash holds the image (a distinct word per address), RAM holds junk
FlashWord(a) == 100 + a \div WordSize
JunkWord == 7
BootMem(s) == [a \in BootAddrs(s) |-> IF a < 4 * W THEN FlashWord(a) ELSE JunkWord]

StackAddrs(s) == WordsIn(s.sstack - FrameBytes, s.sstack)


\* addresses of the code labels whose address the program materializes
CodeLabels == <<"_hpm_start", "init_data", "fall_through", "_pre_init_trap",
                "CORE_LOCAL", "restore", "__INTERRUPTS", "after_setup", "after_main">>
CodeAddr(l) ==
    sym.text + WordSize * (CHOOSE i \in 1..Len(CodeLabels) : CodeLabels[i] = l)

---------------------------------------------------------------------------
(* Bit operations on naturals *)

RECURSIVE BitAnd(_, _)
BitAnd(a, b) ==
    IF a = 0 \/ b = 0 THEN 0
    ELSE (a % 2) * (b % 2) + 2 * BitAnd(a \div 2, b \div 2)

RECURSIVE BitOr(_, _)
BitOr(a, b) ==
    IF a = 0 THEN b
    ELSE IF b = 0 THEN a
    ELSE (IF a % 2 = 1 \/ b % 2 = 1 THEN 1 ELSE 0) + 2 * BitOr(a \div 2, b \div 2)

---------------------------------------------------------------------------
(* Dispatch tables and handler symbols *)

\* the exception table without its two reserved slots: the handlers packed
HPM_EXCEPTIONS_Packed ==
    << "InstructionMisaligned", "InstructionFault", "IllegalInstruction",
       "Breakpoint", "LoadMisaligned", "LoadFault", "StoreMisaligned",
       "StoreFault", "UserEnvCall", "SupervisorEnvCall",
       "MachineEnvCall", "InstructionPageFault", "LoadPageFault",
       "StorePageFault" >>

\* __HPM_EXCEPTIONS: slot code+1 holds the handler symbol, "None" if absent
HPM_EXCEPTIONS ==
    << "InstructionMisaligned", "InstructionFault", "IllegalInstruction",
       "Breakpoint", "LoadMisaligned", "LoadFault", "StoreMisaligned",
       "StoreFault", "UserEnvCall", "SupervisorEnvCall", "None",
       "MachineEnvCall", "InstructionPageFault", "LoadPageFault", "None",
       "StorePageFault" >>

\* the interrupt table begun at code 1: every handler one slot too low
HPM_CORE_INTERRUPTS_FromOne ==
    << "SupervisorSoft", "None", "MachineSoft", "None",
       "SupervisorTimer", "None", "MachineTimer", "None",
       "SupervisorExternal", "None", "MachineExternal", "None", "None", "None" >>

\* __HPM_CORE_INTERRUPTS
HPM_CORE_INTERRUPTS ==
    << "None", "SupervisorSoft", "None", "MachineSoft", "None",
       "SupervisorTimer", "None", "MachineTimer", "None",
       "SupervisorExternal", "None", "MachineExternal", "None", "None" >>

\* slice::get(code) followed by the match on Some(Some(handler)):
\* the handler symbol, or "None" when out of range or the slot is None
TableGet(table, code) ==
    IF code >= 0 /\ code < Len(table) THEN table[code + 1] ELSE "None"

ExceptionSyms == {HPM_EXCEPTIONS[i] : i \in 1..Len(HPM_EXCEPTIONS)} \ {"None"}
InterruptSyms == {HPM_CORE_INTERRUPTS[i] : i \in 1..Len(HPM_CORE_INTERRUPTS)} \ {"None"}
HandlerSyms == ExceptionSyms \cup InterruptSyms \cup {"ExceptionHandler", "DefaultHandler"}

\* Weak binding of a handler symbol: the application's definition when it
\* has one, otherwise the library default: DefaultExceptionHandler for the
\* exception class, DefaultInterruptHandler for the interrupt class.
Binding(h) ==
    IF h \in overridden THEN "application"
    ELSE IF h \in ExceptionSyms \cup {"ExceptionHandler"} THEN "DefaultExceptionHandler"
    ELSE "DefaultInterruptHandler"

NoArg == 0 - 1

----------------------------------------------------------------------------
(* The hardware behind the loads and stores: memory-attribute entries and
   the L1 data cache *)

\* the 8-bit field of entry n in a value of the configuration register
EntryField(cfg, n) == (cfg \div (256 ^ n)) % 256

\* ETYP, bits [1:0] of the field, is not OFF
EntryOn(cfg, n) == EntryField(cfg, n) % 4 # 0

\* the number of trailing one bits of an address-register value
RECURSIVE TrailingOnes(_)
TrailingOnes(v) == IF v % 2 = 1 THEN 1 + TrailingOnes(v \div 2) ELSE 0

\* k trailing ones stand for a range of 2^(k+3) bytes
DecodedSize(v) == 2 ^ (TrailingOnes(v) + 3)

\* the bits above the trailing ones and the 0 that ends them, as a byte
\* address
DecodedBase(v) == (v - (v % (2 ^ (TrailingOnes(v) + 1)))) * 4

\* address a lies in the window the address-register value v decodes to
InWindow(a, v) == DecodedBase(v) <= a /\ a < DecodedBase(v) + DecodedSize(v)

\* an entry that is on covers a; both entries the program uses carry the
\* non-cacheable memory type
NonCacheable(a) ==
    \/ EntryOn(pma.cfg0, 0) /\ InWindow(a, pma.addr0)
    \/ EntryOn(pma.cfg0, 1) /\ InWindow(a, pma.addr1)

\* a word address without a line in the data cache
NoLine == 0 - 1

\* an access to a goes through the data cache
Cached(a) == cache.dc /\ ~NonCacheable(a)

\* the word a load of a returns: the line when the access is cached and
\* hits, the memory word otherwise
Load(a) ==
    IF Cached(a) /\ cache.lines[a] # NoLine THEN cache.lines[a] ELSE mem[a]

\* the lines after a load of a: a cached miss fills the line from memory
LinesAfterLoad(a) ==
    IF Cached(a) /\ cache.lines[a] = NoLine
    THEN [cache.lines EXCEPT ![a] = mem[a]]
    ELSE cache.lines

\* the memory after a store of v to a: a cached store (write-back,
\* write-allocate) leaves memory alone
MemAfterStore(a, v) == IF Cached(a) THEN mem ELSE [mem EXCEPT ![a] = v]

\* the lines after that store, from lines l: a cached store puts v in the
\* line of a, any other store leaves the lines alone
LinesAfterStore(l, a, v) == IF Cached(a) THEN [l EXCEPT ![a] = v] ELSE l

\* memory as the loads of the hart see it
View == [a \in DOMAIN mem |-> Load(a)]

\* the data cache after a hardware reset: off and empty
NoLines == [a \in DOMAIN mem |-> NoLine]

---------------------------------------------------------------------------
(* Initial state: the hart at reset *)

ResetRegs == [r \in RegSet |-> 0]

\* the L1 caches after a hardware reset: off, the data cache empty
CacheAtReset == [ic |-> FALSE, dc |-> FALSE, inval |-> FALSE, lines |-> NoLines]

\* the PMA registers after a hardware reset: every entry off
PmaAtReset == [addr0 |-> 0, addr1 |-> 0, cfg0 |-> 0, val |-> 0, fenced |-> FALSE]

PlicAtReset ==
    [ threshold |-> 1, claimed |-> {},
      inten |-> [i \in 0..(PlicEnableWords - 1) |-> 1], vectored |-> FALSE ]

\* everything but the build configuration, the layout and the memory
InitHart ==
    /\ regs = ResetRegs
    /\ mstatus = [mie |-> FALSE, mpie |-> FALSE, sie |-> FALSE, fs |-> 0]
    /\ mcause = NoTrap
    /\ mtval = 0
    /\ mepc = "none"
    /\ pma_writes = <<>>
    /\ accesses = <<>>
    /\ plic = PlicAtReset
    /\ loop_i = 0
    /\ calls = <<>>
    /\ trap_regs = [regs |-> ResetRegs, sp |-> 0]
    /\ main_calls = 0

\* the hart at the reset vector, the caches left open
InitBoot ==
    /\ InitHart
    /\ pc = "_hpm_start"
    /\ pma = PmaAtReset
    /\ pma_reset = pma
    /\ sp = 0
    /\ mtvec = 0
    /\ misc = [cy |-> FALSE, vec_plic |-> FALSE, gp |-> FALSE]
    /\ pre_init_calls = 0
    /\ hpm67_fix \in BOOLEAN
    /\ pma_noncacheable \in BOOLEAN
    /\ debug_build \in BOOLEAN
    /\ overridden \in {{}, HandlerSyms}
    /\ sym \in BootLayouts
    /\ mem = BootMem(sym)
    /\ mem0 = mem
    /\ stack = [a \in StackAddrs(sym) |-> JunkWord]
    /\ mie \in {{}, 0..MaxIntCode}

\* after a hardware reset
Init ==
    /\ InitBoot
    /\ cache = CacheAtReset
    /\ cache_reset = cache

config == <<hpm67_fix, pma_noncacheable, debug_build, overridden, sym, mem0,
           pma_reset, cache_reset>>
csrs == <<mtvec, mstatus, mie, mcause, mtval, mepc>>
devices == <<cache, pma, pma_writes, plic, loop_i, misc>>
ghosts == <<calls, trap_regs, main_calls, pre_init_calls, accesses>>


---------------------------------------------------------------------------
(* Hardware trap entry *)

\* Where the hart lands on a trap: the placeholder while mtvec holds it;
\* entry 0 of the vector table (CORE_LOCAL) once mtvec holds __INTERRUPTS
\* and MMISC_CTL.VEC_PLIC is set; with mtvec = __INTERRUPTS and VEC_PLIC
\* still clear the hart jumps to the table itself and runs its words.
TrapTarget ==
    IF mtvec = CodeAddr("_pre_init_trap") THEN "_pre_init_trap"
    ELSE IF misc.vec_plic THEN "CORE_LOCAL"
    ELSE "vector_table_as_code"

TakeTrap(cause, tval) ==
    /\ mcause' = cause
    /\ mtval' = tval
    /\ mepc' = pc
    /\ mstatus' = [mstatus EXCEPT !.mpie = mstatus.mie, !.mie = FALSE]
    /\ trap_regs' = [regs |-> regs, sp |-> sp]
    /\ calls' = <<>>
    /\ pc' = TrapTarget
    /\ UNCHANGED <<config, mem, regs, sp, stack, mtvec, mie, devices,
                   main_calls, pre_init_calls, accesses>>

\* positions whose instruction loads or stores (data memory or PLIC MMIO)
MemAccessPcs ==
    {LoopPc(r) : r \in RegionSet} \cup
    {"set_threshold", "claim_loop", "inten_loop", "set_vectored"}

\* an access fault on a load or store of the boot code
BootFault ==
    /\ pc \in MemAccessPcs
    /\ \E code \in {5, 7} : TakeTrap([exc |-> TRUE, code |-> code], 1)

\* any exception raised by application code: the pre-init hook or main
AppException ==
    /\ pc \in {"__pre_init", "main"}
    /\ \E code \in 0..MaxExcCode, tval \in {0, 1} :
          TakeTrap([exc |-> TRUE, code |-> code], tval)

\* the machine-external line is raised by the PLIC only for an enabled source
Pending(code) ==
    /\ code \in mie
    /\ code = 11 => \E i \in DOMAIN plic.inten : plic.inten[i] # 0

\* a core-local interrupt: taken wherever the hart runs with MIE set
Interrupt ==
    /\ mstatus.mie
    /\ pc \notin {"panic", "vector_table_as_code"}
    /\ \E code \in 0..MaxIntCode, tval \in {0, 1} :
          /\ Pending(code)
          /\ TakeTrap([exc |-> FALSE, code |-> code], tval)

---------------------------------------------------------------------------
(* _hpm_start (asm.rs) *)

HpmStart ==
    /\ pc = "_hpm_start"
    /\ sp' = sym.sstack
    /\ misc' = [misc EXCEPT !.gp = TRUE]
    /\ pc' = "set_mtvec"
    /\ UNCHANGED <<config, mem, regs, stack, csrs, cache, pma, pma_writes,
                   plic, loop_i, ghosts>>

\* the start code without the csrw mtvec of the placeholder
SetPreInitTrapNoWrite ==
    /\ pc = "set_mtvec"
    /\ regs' = [regs EXCEPT !["t0"] = CodeAddr("_pre_init_trap")]
    /\ pc' = "clear_mstatus"
    /\ UNCHANGED <<config, mem, sp, stack, mtvec, mstatus, mie, mcause, mtval,
                   mepc, devices, ghosts>>

\* la t0, _pre_init_trap; csrw mtvec, t0
SetPreInitTrap ==
    /\ pc = "set_mtvec"
    /\ regs' = [regs EXCEPT !["t0"] = CodeAddr("_pre_init_trap")]
    /\ mtvec' = CodeAddr("_pre_init_trap")
    /\ pc' = "clear_mstatus"
    /\ UNCHANGED <<config, mem, sp, stack, mstatus, mie, mcause, mtval, mepc,
                   devices, ghosts>>

ClearMstatus ==
    /\ pc = "clear_mstatus"
    /\ mstatus' = [mie |-> FALSE, mpie |-> FALSE, sie |-> FALSE, fs |-> 0]
    /\ pc' = "clear_mie"
    /\ UNCHANGED <<config, mem, regs, sp, stack, mtvec, mie, mcause, mtval,
                   mepc, devices, ghosts>>

ClearMie ==
    /\ pc = "clear_mie"
    /\ mie' = {}
    /\ pc' = "call_pre_init"
    /\ UNCHANGED <<config, mem, regs, sp, stack, mtvec, mstatus, mcause,
                   mtval, mepc, devices, ghosts>>

CallPreInit ==
    /\ pc = "call_pre_init"
    /\ regs' = [regs EXCEPT !["ra"] = CodeAddr("init_data")]
    /\ pre_init_calls' = pre_init_calls + 1
    /\ pc' = "__pre_init"
    /\ UNCHANGED <<config, mem, sp, stack, csrs, devices, calls, trap_regs,
                   main_calls, accesses>>

\* the hook (default_pre_init or the application's) returns
PreInitReturn ==
    /\ pc = "__pre_init"
    /\ pc' = "init_data"
    /\ UNCHANGED <<config, mem, regs, sp, stack, csrs, devices, ghosts>>

\* RegionEnter whose skip branch targets the region's own head: an empty
\* region is never left
RegionEnterEmptyStalls(r) ==
    /\ pc = InitPc(r)
    /\ regs' = IF r \in CopyRegions
               THEN [regs EXCEPT !["a0"] = RegionStart(r), !["a1"] = RegionEnd(r),
                                 !["a2"] = RegionSrc(r)]
               ELSE [regs EXCEPT !["a0"] = RegionStart(r), !["a1"] = RegionEnd(r)]
    /\ pc' = IF RegionStart(r) >= RegionEnd(r) THEN InitPc(r) ELSE LoopPc(r)
    /\ UNCHANGED <<config, mem, sp, stack, csrs, devices, ghosts>>

\* RegionEnter without the bgeu / the loop pre-test: the loop body always
\* runs at least once
RegionEnterNoGuard(r) ==
    /\ pc = InitPc(r)
    /\ regs' = IF r \in CopyRegions
               THEN [regs EXCEPT !["a0"] = RegionStart(r), !["a1"] = RegionEnd(r),
                                 !["a2"] = RegionSrc(r)]
               ELSE [regs EXCEPT !["a0"] = RegionStart(r), !["a1"] = RegionEnd(r)]
    /\ pc' = LoopPc(r)
    /\ UNCHANGED <<config, mem, sp, stack, csrs, devices, ghosts>>

\* la a0/a1(/a2) and the bgeu that skips an empty region.  For the two
\* non-cacheable regions the same slots hold init_noncacheable_sections'
\* locals dst (a0), end (a1) and src (a2).
RegionEnter(r) ==
    /\ pc = InitPc(r)
    /\ regs' = IF r \in CopyRegions
               THEN [regs EXCEPT !["a0"] = RegionStart(r), !["a1"] = RegionEnd(r),
                                 !["a2"] = RegionSrc(r)]
               ELSE [regs EXCEPT !["a0"] = RegionStart(r), !["a1"] = RegionEnd(r)]
    /\ pc' = IF RegionStart(r) >= RegionEnd(r) THEN DonePc(r) ELSE LoopPc(r)
    /\ UNCHANGED <<config, mem, sp, stack, csrs, devices, ghosts>>

\* the copy loop without `addi a2, a2, 4`: the source pointer stays put
CopyWordFixedSource(r) ==
    /\ r \in CopyRegions
    /\ pc = LoopPc(r)
    /\ mem' = MemAfterStore(regs["a0"], Load(regs["a2"]))
    /\ cache' = [cache EXCEPT !.lines =
                    LinesAfterStore(LinesAfterLoad(regs["a2"]), regs["a0"],
                                    Load(regs["a2"]))]
    /\ regs' = [regs EXCEPT !["t0"] = Load(regs["a2"]),
                            !["a0"] = (regs["a0"] + WordSize)]
    /\ pc' = IF (regs["a0"] + WordSize) < regs["a1"] THEN LoopPc(r) ELSE DonePc(r)
    /\ accesses' = accesses \o << [op |-> "lw", addr |-> regs["a2"]],
                                  [op |-> "sw", addr |-> regs["a0"]] >>
    /\ UNCHANGED <<config, sp, stack, csrs, pma, pma_writes, plic, loop_i,
                   misc, calls, trap_regs, main_calls, pre_init_calls>>

\* lw t0, 0(a2); sw t0, 0(a0); addi a0, a0, 4; addi a2, a2, 4; bltu a0, a1
CopyWord(r) ==
    /\ r \in CopyRegions
    /\ pc = LoopPc(r)
    /\ mem' = MemAfterStore(regs["a0"], Load(regs["a2"]))
    /\ cache' = [cache EXCEPT !.lines =
                    LinesAfterStore(LinesAfterLoad(regs["a2"]), regs["a0"],
                                    Load(regs["a2"]))]
    /\ regs' = [regs EXCEPT !["t0"] = Load(regs["a2"]),
                            !["a0"] = (regs["a0"] + WordSize),
                            !["a2"] = (regs["a2"] + WordSize)]
    /\ pc' = IF (regs["a0"] + WordSize) < regs["a1"] THEN LoopPc(r) ELSE DonePc(r)
    /\ accesses' = accesses \o << [op |-> "lw", addr |-> regs["a2"]],
                                  [op |-> "sw", addr |-> regs["a0"]] >>
    /\ UNCHANGED <<config, sp, stack, csrs, pma, pma_writes, plic, loop_i,
                   misc, calls, trap_regs, main_calls, pre_init_calls>>

\* the zero loop with the increment in front of the store: the first word
\* is skipped and the word at the end address is written
ZeroWordAfterIncrement(r) ==
    /\ r \notin CopyRegions
    /\ pc = LoopPc(r)
    /\ mem' = MemAfterStore(regs["a0"] + WordSize, 0)
    /\ cache' = [cache EXCEPT !.lines =
                    LinesAfterStore(cache.lines, regs["a0"] + WordSize, 0)]
    /\ regs' = [regs EXCEPT !["a0"] = (regs["a0"] + WordSize)]
    /\ pc' = IF (regs["a0"] + WordSize) < regs["a1"] THEN LoopPc(r) ELSE DonePc(r)
    /\ accesses' = Append(accesses, [op |-> "sw", addr |-> regs["a0"] + WordSize])
    /\ UNCHANGED <<config, sp, stack, csrs, pma, pma_writes, plic, loop_i,
                   misc, calls, trap_regs, main_calls, pre_init_calls>>

\* the zero loop with bleu in place of bltu: one more pass at dest-end
ZeroWordInclusiveEnd(r) ==
    /\ r \notin CopyRegions
    /\ pc = LoopPc(r)
    /\ mem' = MemAfterStore(regs["a0"], 0)
    /\ cache' = [cache EXCEPT !.lines =
                    LinesAfterStore(cache.lines, regs["a0"], 0)]
    /\ regs' = [regs EXCEPT !["a0"] = (regs["a0"] + WordSize)]
    /\ pc' = IF (regs["a0"] + WordSize) <= regs["a1"] THEN LoopPc(r) ELSE DonePc(r)
    /\ accesses' = Append(accesses, [op |-> "sw", addr |-> regs["a0"]])
    /\ UNCHANGED <<config, sp, stack, csrs, pma, pma_writes, plic, loop_i,
                   misc, calls, trap_regs, main_calls, pre_init_calls>>

\* sw zero, 0(a0); addi a0, a0, 4; bltu a0, a1, 1b
ZeroWord(r) ==
    /\ r \notin CopyRegions
    /\ pc = LoopPc(r)
    /\ mem' = MemAfterStore(regs["a0"], 0)
    /\ cache' = [cache EXCEPT !.lines =
                    LinesAfterStore(cache.lines, regs["a0"], 0)]
    /\ regs' = [regs EXCEPT !["a0"] = (regs["a0"] + WordSize)]
    /\ pc' = IF (regs["a0"] + WordSize) < regs["a1"] THEN LoopPc(r) ELSE DonePc(r)
    /\ accesses' = Append(accesses, [op |-> "sw", addr |-> regs["a0"]])
    /\ UNCHANGED <<config, sp, stack, csrs, pma, pma_writes, plic, loop_i,
                   misc, calls, trap_regs, main_calls, pre_init_calls>>

CallHpmStartRust ==
    /\ pc = "call_hpm_start_rust"
    /\ regs' = [regs EXCEPT !["ra"] = CodeAddr("fall_through")]
    /\ pc' = "set_fs"
    /\ UNCHANGED <<config, mem, sp, stack, csrs, devices, ghosts>>

\* a placeholder that returns to the interrupted code (mret) instead of
\* jumping to itself
PreInitTrapReturns ==
    /\ pc = "_pre_init_trap"
    /\ pc' = mepc
    /\ UNCHANGED <<config, mem, regs, sp, stack, csrs, devices, ghosts>>

\* j _pre_init_trap
PreInitTrap ==
    /\ pc = "_pre_init_trap"
    /\ UNCHANGED vars


---------------------------------------------------------------------------
(* _hpm_start_rust (lib.rs): FPU, L1 cache *)

SetFs ==
    /\ pc = "set_fs"
    /\ mstatus' = [mstatus EXCEPT !.fs = 1]
    /\ pc' = "ic_enable"
    /\ UNCHANGED <<config, mem, regs, sp, stack, mtvec, mie, mcause, mtval,
                   mepc, devices, ghosts>>

IcEnable ==
    /\ pc = "ic_enable"
    /\ cache' = [cache EXCEPT !.ic = TRUE]
    /\ pc' = "dc_enable"
    /\ UNCHANGED <<config, mem, regs, sp, stack, csrs, pma, pma_writes, plic,
                   loop_i, misc, ghosts>>

DcEnable ==
    /\ pc = "dc_enable"
    /\ cache' = [cache EXCEPT !.dc = TRUE]
    /\ pc' = "dc_invalidate_all"
    /\ UNCHANGED <<config, mem, regs, sp, stack, csrs, pma, pma_writes, plic,
                   loop_i, misc, ghosts>>

\* dc_invalidate_all marking the cache invalidated and keeping its lines
DcInvalidateAllKeepsLines ==
    /\ pc = "dc_invalidate_all"
    /\ cache' = [cache EXCEPT !.inval = TRUE]
    /\ pc' = "pma_config"
    /\ UNCHANGED <<config, mem, regs, sp, stack, csrs, pma, pma_writes, plic,
                   loop_i, misc, ghosts>>

\* andes_riscv::l1c::dc_invalidate_all(): every line is dropped, none is
\* written back
DcInvalidateAll ==
    /\ pc = "dc_invalidate_all"
    /\ cache' = [cache EXCEPT !.inval = TRUE, !.lines = NoLines]
    /\ pc' = "pma_config"
    /\ UNCHANGED <<config, mem, regs, sp, stack, csrs, pma, pma_writes, plic,
                   loop_i, misc, ghosts>>

---------------------------------------------------------------------------
(* PMA configuration (lib.rs) *)

\* the encoding with the whole length added instead of its half
NapotWholeLength(base, length) ==
    ((base + length + AddrSpace - 1) % AddrSpace) \div 4

\* (base + (length >> 1) - 1) >> 2 in wrapping unsigned arithmetic
Napot(base, length) ==
    ((base + (length \div 2) + AddrSpace - 1) % AddrSpace) \div 4

\* the addition or the subtraction of the encoding leaves the unsigned range
NapotOverflows(base, length) ==
    \/ base + (length \div 2) >= AddrSpace
    \/ base + (length \div 2) < 1

\* the RTT address taken as the base without rounding
AlignDown4KIdentity(a) == a

\* rtt_addr & !0xFFF
AlignDown4K(a) == a - (a % RttWindow)

PmaStep(next, newpma, log) ==
    /\ pma' = newpma
    /\ pma_writes' = pma_writes \o log
    /\ pc' = next
    /\ UNCHANGED <<config, mem, regs, sp, stack, csrs, cache, plic, loop_i,
                   misc, ghosts>>

\* the encoding of (base, length) is computed and written to pmaaddr<n>:
\* a build with overflow checks (debug) panics when the arithmetic leaves
\* the unsigned range, a build without them wraps
PmaAddrStep(next, reg, base, length, newpma) ==
    IF debug_build /\ NapotOverflows(base, length)
    THEN PmaStep("panic", pma, <<>>)
    ELSE PmaStep(next, newpma, << <<reg, Napot(base, length)>> >>)

\* no PMA feature: nothing between the cache setup and the region init
NoPma ==
    /\ pc = "pma_config"
    /\ ~hpm67_fix /\ ~pma_noncacheable
    /\ PmaStep("init_nc_data", pma, <<>>)

\* entry 0 of configure_pma_hpm67 with a csrw of its own after the address
Pma67Entry0WritesCfg ==
    /\ pc = "pma_config"
    /\ hpm67_fix /\ pma_noncacheable
    /\ IF sym.SEGGER_RTT # 0
       THEN LET a == Napot(AlignDown4K(sym.SEGGER_RTT), RttWindow)
            IN PmaStep("pma67_entry1",
                       [pma EXCEPT !.addr0 = a,
                                   !.cfg0 = ENTRY_NAPOT_NC_BUF,
                                   !.val = BitOr(0, ENTRY_NAPOT_NC_BUF)],
                       << <<"pmaaddr0", a>>, <<"pmacfg0", ENTRY_NAPOT_NC_BUF>> >>)
       ELSE PmaStep("pma67_entry1", [pma EXCEPT !.val = 0], <<>>)

\* configure_pma_hpm67: pmacfg0_val = 0 and entry 0
Pma67Entry0 ==
    /\ pc = "pma_config"
    /\ hpm67_fix /\ pma_noncacheable
    /\ IF sym.SEGGER_RTT # 0
       THEN LET a == Napot(AlignDown4K(sym.SEGGER_RTT), RttWindow)
            IN PmaAddrStep("pma67_entry1", "pmaaddr0",
                           AlignDown4K(sym.SEGGER_RTT), RttWindow,
                           [pma EXCEPT !.addr0 = a,
                                       !.val = BitOr(0, ENTRY_NAPOT_NC_BUF)])
       ELSE PmaStep("pma67_entry1", [pma EXCEPT !.val = 0], <<>>)

\* configure_pma_hpm67: entry 1
Pma67Entry1 ==
    /\ pc = "pma67_entry1"
    /\ IF sym.noncacheable_end > sym.noncacheable_start
       THEN LET a == Napot(sym.noncacheable_start,
                           sym.noncacheable_end - sym.noncacheable_start)
            IN PmaAddrStep("pma67_csrw", "pmaaddr1", sym.noncacheable_start,
                           sym.noncacheable_end - sym.noncacheable_start,
                           [pma EXCEPT !.addr1 = a,
                                       !.val = BitOr(pma.val, ENTRY_NAPOT_NC_BUF_AMO * 256)])
       ELSE PmaStep("pma67_csrw", pma, <<>>)

\* csrw 0xBC0, pmacfg0_val
Pma67Csrw ==
    /\ pc = "pma67_csrw"
    /\ PmaStep("pma67_fence", [pma EXCEPT !.cfg0 = pma.val],
               << <<"pmacfg0", pma.val>> >>)

Pma67Fence ==
    /\ pc = "pma67_fence"
    /\ PmaStep("init_nc_data", [pma EXCEPT !.fenced = TRUE], <<>>)

\* configure_rtt_noncacheable without the test of the symbol
RttCheckIgnoresSymbol ==
    /\ pc = "pma_config"
    /\ hpm67_fix /\ ~pma_noncacheable
    /\ PmaStep("rtt_write_addr", pma, <<>>)

\* configure_rtt_noncacheable
RttCheck ==
    /\ pc = "pma_config"
    /\ hpm67_fix /\ ~pma_noncacheable
    /\ PmaStep(IF sym.SEGGER_RTT = 0 THEN "init_nc_data" ELSE "rtt_write_addr",
               pma, <<>>)

RttWriteAddr ==
    /\ pc = "rtt_write_addr"
    /\ LET a == Napot(AlignDown4K(sym.SEGGER_RTT), RttWindow)
       IN PmaAddrStep("rtt_csrw", "pmaaddr0", AlignDown4K(sym.SEGGER_RTT),
                      RttWindow, [pma EXCEPT !.addr0 = a])

\* the configuration write of configure_rtt_noncacheable as a csrs: the
\* bits of the entry are set and the other bits of the register kept
RttCsrwSetsBits ==
    /\ pc = "rtt_csrw"
    /\ PmaStep("rtt_fence",
               [pma EXCEPT !.cfg0 = BitOr(pma.cfg0, ENTRY_NAPOT_NC_BUF)],
               << <<"pmacfg0", BitOr(pma.cfg0, ENTRY_NAPOT_NC_BUF)>> >>)

\* csrw 0xBC0, 0x0F
RttCsrw ==
    /\ pc = "rtt_csrw"
    /\ PmaStep("rtt_fence", [pma EXCEPT !.cfg0 = ENTRY_NAPOT_NC_BUF],
               << <<"pmacfg0", ENTRY_NAPOT_NC_BUF>> >>)

RttFence ==
    /\ pc = "rtt_fence"
    /\ PmaStep("init_nc_data", [pma EXCEPT !.fenced = TRUE], <<>>)

\* configure_noncacheable_pma
NcCheck ==
    /\ pc = "pma_config"
    /\ pma_noncacheable /\ ~hpm67_fix
    /\ PmaStep(IF sym.noncacheable_end <= sym.noncacheable_start
               THEN "init_nc_data" ELSE "nc_assert", pma, <<>>)

\* the two debug_assert!s
NcAssert ==
    /\ pc = "nc_assert"
    /\ LET length == sym.noncacheable_end - sym.noncacheable_start
           ok == /\ BitAnd(length, length - 1) = 0
                 /\ BitAnd(sym.noncacheable_start, length - 1) = 0
       IN PmaStep(IF debug_build /\ ~ok THEN "panic" ELSE "nc_write_addr",
                  pma, <<>>)

NcWriteAddr ==
    /\ pc = "nc_write_addr"
    /\ LET a == Napot(sym.noncacheable_start,
                      sym.noncacheable_end - sym.noncacheable_start)
       IN PmaAddrStep("nc_csrw", "pmaaddr1", sym.noncacheable_start,
                      sym.noncacheable_end - sym.noncacheable_start,
                      [pma EXCEPT !.addr1 = a])

NcCsrw ==
    /\ pc = "nc_csrw"
    /\ PmaStep("nc_fence", [pma EXCEPT !.cfg0 = ENTRY_NAPOT_NC_BUF_AMO * 256],
               << <<"pmacfg0", ENTRY_NAPOT_NC_BUF_AMO * 256>> >>)

\* configure_noncacheable_pma returning without its fence.i
NcFenceOmitted ==
    /\ pc = "nc_fence"
    /\ PmaStep("init_nc_data", pma, <<>>)

\* fence.i
NcFence ==
    /\ pc = "nc_fence"
    /\ PmaStep("init_nc_data", [pma EXCEPT !.fenced = TRUE], <<>>)

---------------------------------------------------------------------------
(* setup_interrupts (lib.rs) *)

\* the call bound to asm.rs' default_setup_interrupts (a bare ret) instead
\* of lib.rs' setup_interrupts
CallDefaultSetupInterrupts ==
    /\ pc = "call_setup_interrupts"
    /\ regs' = [regs EXCEPT !["ra"] = CodeAddr("after_setup")]
    /\ pc' = "call_main"
    /\ UNCHANGED <<config, mem, sp, stack, csrs, devices, ghosts>>

CallSetupInterrupts ==
    /\ pc = "call_setup_interrupts"
    /\ regs' = [regs EXCEPT !["ra"] = CodeAddr("after_setup")]
    /\ pc' = "set_threshold"
    /\ UNCHANGED <<config, mem, sp, stack, csrs, devices, ghosts>>

PlicStep(next, newplic, i) ==
    /\ plic' = newplic
    /\ loop_i' = i
    /\ pc' = next
    /\ UNCHANGED <<config, mem, regs, sp, stack, csrs, cache, pma, pma_writes,
                   misc, ghosts>>

\* plic.set_threshold(0)
SetThreshold ==
    /\ pc = "set_threshold"
    /\ PlicStep("claim_loop", [plic EXCEPT !.threshold = 0], 0)

\* one iteration of for i in 0..128: claim-complete of source i
ClaimComplete ==
    /\ pc = "claim_loop"
    /\ PlicStep(IF loop_i + 1 < PlicSources THEN "claim_loop" ELSE "inten_loop",
                [plic EXCEPT !.claimed = @ \cup {loop_i}],
                IF loop_i + 1 < PlicSources THEN loop_i + 1 ELSE 0)

\* the enable loop run for word 0 only
ClearEnableFirstWordOnly ==
    /\ pc = "inten_loop"
    /\ PlicStep("set_cy", [plic EXCEPT !.inten[0] = 0], 0)

\* one iteration of for i in 0..4: inten(i) = 0
ClearEnable ==
    /\ pc = "inten_loop"
    /\ PlicStep(IF loop_i + 1 < PlicEnableWords THEN "inten_loop" ELSE "set_cy",
                [plic EXCEPT !.inten[loop_i] = 0],
                IF loop_i + 1 < PlicEnableWords THEN loop_i + 1 ELSE 0)

\* mcounteren::set_cy()
SetCy ==
    /\ pc = "set_cy"
    /\ misc' = [misc EXCEPT !.cy = TRUE]
    /\ pc' = "write_mtvec"
    /\ UNCHANGED <<config, mem, regs, sp, stack, csrs, cache, pma, pma_writes,
                   plic, loop_i, ghosts>>

\* WriteMtvec with the global enable hoisted in front of the PLIC vectored
\* mode: mtvec is written and mstatus.MIE set in one go
WriteMtvecAndEnable ==
    /\ pc = "write_mtvec"
    /\ mtvec' = CodeAddr("__INTERRUPTS")
    /\ mstatus' = [mstatus EXCEPT !.mie = TRUE]
    /\ pc' = "set_vectored"
    /\ UNCHANGED <<config, mem, regs, sp, stack, mie, mcause, mtval,
                   mepc, devices, ghosts>>

\* mtvec::write(Mtvec::new(&__INTERRUPTS, Direct))
WriteMtvec ==
    /\ pc = "write_mtvec"
    /\ mtvec' = CodeAddr("__INTERRUPTS")
    /\ pc' = "set_vectored"
    /\ UNCHANGED <<config, mem, regs, sp, stack, mstatus, mie, mcause, mtval,
                   mepc, devices, ghosts>>

\* plic.feature().modify(set_vectored(true))
SetVectored ==
    /\ pc = "set_vectored"
    /\ PlicStep("set_vec_plic", [plic EXCEPT !.vectored = TRUE], loop_i)

\* mmisc_ctl().modify(set_vec_plic(true))
SetVecPlic ==
    /\ pc = "set_vec_plic"
    /\ misc' = [misc EXCEPT !.vec_plic = TRUE]
    /\ pc' = "set_mie"
    /\ UNCHANGED <<config, mem, regs, sp, stack, csrs, cache, pma, pma_writes,
                   plic, loop_i, ghosts>>

\* mstatus::set_mie()
SetMie ==
    /\ pc = "set_mie"
    /\ mstatus' = [mstatus EXCEPT !.mie = TRUE]
    /\ pc' = "set_sie"
    /\ UNCHANGED <<config, mem, regs, sp, stack, mtvec, mie, mcause, mtval,
                   mepc, devices, ghosts>>

\* mstatus::set_sie()
SetSie ==
    /\ pc = "set_sie"
    /\ mstatus' = [mstatus EXCEPT !.sie = TRUE]
    /\ pc' = "set_mext"
    /\ UNCHANGED <<config, mem, regs, sp, stack, mtvec, mie, mcause, mtval,
                   mepc, devices, ghosts>>

\* mie::set_mext(), the last statement of setup_interrupts
SetMext ==
    /\ pc = "set_mext"
    /\ mie' = mie \cup {11}
    /\ pc' = "call_main"
    /\ UNCHANGED <<config, mem, regs, sp, stack, mtvec, mstatus, mcause,
                   mtval, mepc, devices, ghosts>>

\* main()
CallMain ==
    /\ pc = "call_main"
    /\ regs' = [regs EXCEPT !["ra"] = CodeAddr("after_main")]
    /\ main_calls' = main_calls + 1
    /\ pc' = "main"
    /\ UNCHANGED <<config, mem, sp, stack, csrs, devices, calls, trap_regs,
                   pre_init_calls, accesses>>

\* register contents of the running application
AppRegs == [r \in RegSet |-> 200 + (CHOOSE i \in 1..FrameWords : RegNames[i] = r)]

\* the application runs: it never returns; it uses the registers and turns
\* on the interrupt sources it wants
MainRun ==
    /\ pc = "main"
    /\ regs' = AppRegs
    /\ mie' = 0..MaxIntCode
    /\ plic' = [plic EXCEPT !.inten = [i \in DOMAIN plic.inten |-> 1]]
    /\ UNCHANGED <<pc, config, mem, sp, stack, mtvec, mstatus, mcause, mtval,
                   mepc, cache, pma, pma_writes, loop_i, misc, ghosts>>


---------------------------------------------------------------------------
(* CORE_LOCAL and _start_rust_CORE_LOCAL (trap.rs) *)

\* byte offset of register slot i of the trap frame
FrameOffset(i) == WordSize * (i - 1)

\* addi sp, sp, -64 and the sixteen sw
CoreLocalSave ==
    /\ pc = "CORE_LOCAL"
    /\ sp' = (sp - FrameBytes)
    /\ stack' = [a \in DOMAIN stack |->
                   IF \E i \in 1..FrameWords : a = (sp - FrameBytes) + FrameOffset(i)
                   THEN regs[RegNames[CHOOSE i \in 1..FrameWords :
                                        a = (sp - FrameBytes) + FrameOffset(i)]]
                   ELSE stack[a]]
    /\ pc' = "call_rust"
    /\ UNCHANGED <<config, mem, regs, csrs, devices, ghosts>>

\* mv a0, sp; call _start_rust_CORE_LOCAL
CallRust ==
    /\ pc = "call_rust"
    /\ regs' = [regs EXCEPT !["a0"] = sp, !["ra"] = CodeAddr("restore")]
    /\ pc' = "_start_rust_CORE_LOCAL"
    /\ UNCHANGED <<config, mem, sp, stack, csrs, devices, ghosts>>

\* the errata check without the mtval test
ErrataSuppressedAnyMtval ==
    hpm67_fix /\ mcause.code = IllegalInstructionCode

\* the errata check of the exception path
ErrataSuppressed ==
    hpm67_fix /\ mcause.code = IllegalInstructionCode /\ mtval = 0

\* mcause::read() and the branch on the cause
StartRustCoreLocal ==
    /\ pc = "_start_rust_CORE_LOCAL"
    /\ pc' = IF mcause.exc
             THEN IF ErrataSuppressed THEN "rust_return"
                  ELSE IF TableGet(HPM_EXCEPTIONS, mcause.code) # "None"
                       THEN "call_exception" ELSE "call_ExceptionHandler"
             ELSE IF TableGet(HPM_CORE_INTERRUPTS, mcause.code) # "None"
                  THEN "call_interrupt" ELSE "call_DefaultHandler"
    /\ UNCHANGED <<config, mem, regs, sp, stack, csrs, devices, ghosts>>

\* A call of handler symbol h with argument arg: it is entered; the
\* application's definition returns to `next`, the library default spins.
Invoke(h, arg, next) ==
    /\ calls' = Append(calls, [sym |-> h, arg |-> arg])
    /\ pc' = IF Binding(h) = "application" THEN next ELSE Binding(h)
    /\ UNCHANGED <<config, mem, regs, sp, stack, csrs, devices, trap_regs,
                   main_calls, pre_init_calls, accesses>>

\* handler(trap_frame)
CallException ==
    /\ pc = "call_exception"
    /\ Invoke(TableGet(HPM_EXCEPTIONS, mcause.code), regs["a0"], "call_ExceptionHandler")

\* ExceptionHandler(trap_frame)
CallExceptionHandler ==
    /\ pc = "call_ExceptionHandler"
    /\ Invoke("ExceptionHandler", regs["a0"], "rust_return")

\* handler()
CallInterrupt ==
    /\ pc = "call_interrupt"
    /\ Invoke(TableGet(HPM_CORE_INTERRUPTS, mcause.code), NoArg, "rust_return")

\* DefaultHandler()
CallDefaultHandler ==
    /\ pc = "call_DefaultHandler"
    /\ Invoke("DefaultHandler", NoArg, "rust_return")

\* loop { spin_loop() }
DefaultExceptionHandler ==
    /\ pc = "DefaultExceptionHandler"
    /\ UNCHANGED vars

\* a default interrupt hook with an empty body: it returns
DefaultInterruptHandlerReturns ==
    /\ pc = "DefaultInterruptHandler"
    /\ pc' = "rust_return"
    /\ UNCHANGED <<config, mem, regs, sp, stack, csrs, devices, ghosts>>

\* loop { spin_loop() }
DefaultInterruptHandler ==
    /\ pc = "DefaultInterruptHandler"
    /\ UNCHANGED vars

\* _start_rust_CORE_LOCAL returns: as the calling convention allows, it and
\* the handlers it ran may have left anything in the caller-saved registers
RustReturn ==
    /\ pc = "rust_return"
    /\ regs' \in {regs, [r \in RegSet |-> JunkWord]}
    /\ pc' = "restore"
    /\ UNCHANGED <<config, mem, sp, stack, csrs, devices, ghosts>>

\* the restore sequence without `lw a0, 32(sp)`: a0 keeps what the
\* dispatcher left in it
CoreLocalRestoreSkipsA0 ==
    /\ pc = "restore"
    /\ regs' = [r \in RegSet |->
                  IF r = "a0" THEN regs[r]
                  ELSE stack[sp + FrameOffset(CHOOSE i \in 1..FrameWords : RegNames[i] = r)]]
    /\ sp' = (sp + FrameBytes)
    /\ pc' = "mret"
    /\ UNCHANGED <<config, mem, stack, csrs, devices, ghosts>>

\* the sixteen lw and addi sp, sp, 64
CoreLocalRestore ==
    /\ pc = "restore"
    /\ regs' = [r \in RegSet |->
                  stack[sp + FrameOffset(CHOOSE i \in 1..FrameWords : RegNames[i] = r)]]
    /\ sp' = (sp + FrameBytes)
    /\ pc' = "mret"
    /\ UNCHANGED <<config, mem, stack, csrs, devices, ghosts>>

Mret ==
    /\ pc = "mret"
    /\ pc' = mepc
    /\ mstatus' = [mstatus EXCEPT !.mie = mstatus.mpie, !.mpie = TRUE]
    /\ UNCHANGED <<config, mem, regs, sp, stack, mtvec, mie, mcause, mtval,
                   mepc, devices, ghosts>>

---------------------------------------------------------------------------
(* The system: boot from reset, then traps *)

Next ==
    \/ HpmStart \/ SetPreInitTrap \/ ClearMstatus \/ ClearMie
    \/ CallPreInit \/ PreInitReturn
    \/ \E r \in RegionSet : RegionEnter(r)
    \/ \E r \in RegionSet : CopyWord(r)
    \/ \E r \in RegionSet : ZeroWord(r)
    \/ CallHpmStartRust \/ PreInitTrap
    \/ SetFs \/ IcEnable \/ DcEnable \/ DcInvalidateAll
    \/ NoPma \/ Pma67Entry0 \/ Pma67Entry1 \/ Pma67Csrw \/ Pma67Fence
    \/ RttCheck \/ RttWriteAddr \/ RttCsrw \/ RttFence
    \/ NcCheck \/ NcAssert \/ NcWriteAddr \/ NcCsrw \/ NcFence
    \/ CallSetupInterrupts \/ SetThreshold \/ ClaimComplete \/ ClearEnable
    \/ SetCy \/ WriteMtvec \/ SetVectored \/ SetVecPlic
    \/ SetMie \/ SetSie \/ SetMext \/ CallMain \/ MainRun
    \/ BootFault \/ AppException \/ Interrupt
    \/ CoreLocalSave \/ CallRust \/ StartRustCoreLocal
    \/ CallException \/ CallExceptionHandler \/ CallInterrupt
    \/ CallDefaultHandler \/ DefaultExceptionHandler \/ DefaultInterruptHandler
    \/ RustReturn \/ CoreLocalRestore \/ Mret

Spec == Init /\ [][Next]_vars

\* The hart keeps executing: whenever it can take a step that changes the
\* state, it eventually takes one.
LiveSpec == Init /\ [][Next]_vars /\ WF_vars(Next)

---------------------------------------------------------------------------
(* The region copier on arbitrary descriptors *)

\* the layout in which region r has the descriptor (ds, de, src) and every
\* other region is empty
CopyLayout(r, ds, de, src) ==
    LET e == [ EmptyLayout EXCEPT
                 !.sdata = 0, !.edata = 0, !.sbss = 0, !.ebss = 0,
                 !.sfast = 0, !.efast = 0,
                 !.fast_data_start = 0, !.fast_data_end = 0,
                 !.fast_bss_start = 0, !.fast_bss_end = 0,
                 !.nc_data_start = 0, !.nc_data_end = 0,
                 !.nc_bss_start = 0, !.nc_bss_end = 0,
                 !.noncacheable_start = 0, !.noncacheable_end = 0 ]
    IN CASE r = "data" -> [e EXCEPT !.sdata = ds, !.edata = de, !.sidata = src]
         [] r = "bss" -> [e EXCEPT !.sbss = ds, !.ebss = de]
         [] r = "fast" -> [e EXCEPT !.sfast = ds, !.efast = de, !.sifast = src]
         [] r = "fast_data" -> [e EXCEPT !.fast_data_start = ds, !.fast_data_end = de,
                                         !.fast_data_load = src]
         [] r = "fast_bss" -> [e EXCEPT !.fast_bss_start = ds, !.fast_bss_end = de]
         [] r = "nc_data" -> [e EXCEPT !.nc_data_start = ds, !.nc_data_end = de,
                                       !.nc_data_load = src]
         [] r = "nc_bss" -> [e EXCEPT !.nc_bss_start = ds, !.nc_bss_end = de]

CopyAddrs == WordsIn(0, WordSize * MemWords)
CopyBounds == WordsIn(0, WordSize * MemWords + 1)

\* the hart about to initialize region r (stack, global pointer and
\* placeholder vector set, the pre-init hook run): word-aligned
\* dest-start <= dest-end and a source range inside the memory, any memory
\* contents
CopyInit ==
    /\ InitHart
    /\ misc = [cy |-> FALSE, vec_plic |-> FALSE, gp |-> TRUE]
    /\ pre_init_calls = 1
    /\ hpm67_fix = FALSE /\ pma_noncacheable = FALSE /\ debug_build = FALSE
    /\ overridden = {}
    /\ mie = {}
    /\ \E r \in RegionSet, ds \in CopyBounds, de \in CopyBounds, src \in CopyBounds :
          /\ ds <= de
          /\ src + (de - ds) <= WordSize * MemWords
          /\ r \notin CopyRegions => src = 0
          /\ sym = CopyLayout(r, ds, de, src)
          /\ pc = InitPc(r)
    /\ sp = sym.sstack
    /\ mtvec = CodeAddr("_pre_init_trap")
    /\ pma = PmaAtReset
    /\ pma_reset = pma
    /\ mem \in [CopyAddrs -> 0..MaxVal]
    /\ mem0 = mem
    /\ cache = CacheAtReset
    /\ cache_reset = cache
    /\ stack = [a \in StackAddrs(sym) |-> JunkWord]

CopyNext ==
    \/ \E r \in RegionSet : RegionEnter(r)
    \/ \E r \in RegionSet : CopyWord(r)
    \/ \E r \in RegionSet : ZeroWord(r)

CopySpec == CopyInit /\ [][CopyNext]_vars

----------------------------------------------------------------------------
(* The memory-attribute configurator on arbitrary linker symbols and on an
   arbitrary state of the entry registers left by an earlier boot stage *)

\* __noncacheable_start__
PmaStarts == {0, RttWindow, RttWindow + 2 * WordSize, 2 * RttWindow,
              AddrSpace \div 2}

\* __noncacheable_end__ - __noncacheable_start__ of a non-reversed range
PmaLengths == {0, 1, 2, 3 * RttWindow} \cup {2 ^ k : k \in 3..(AddrBits - 1)}

\* _SEGGER_RTT: 0 when the symbol is not linked
PmaRttAddrs == {0, 1, RttWindow + 5 * WordSize, AddrSpace - 1}

PmaLayout(start, end, rtt) ==
    [EmptyLayout EXCEPT !.noncacheable_start = start,
                        !.noncacheable_end = end,
                        !.SEGGER_RTT = rtt]

\* pmaaddr0, pmaaddr1 and pmacfg0 as the configurator finds them: at their
\* reset value, or with entry 0, or all four entries, left enabled by the
\* stage that ran before
PmaFound ==
    {PmaAtReset,
     [PmaAtReset EXCEPT !.addr0 = 1, !.cfg0 = ENTRY_NAPOT_NC_BUF],
     [PmaAtReset EXCEPT !.addr0 = 1, !.addr1 = 1,
                        !.cfg0 = ENTRY_NAPOT_NC_BUF
                                 + ENTRY_NAPOT_NC_BUF_AMO * 256
                                 + ENTRY_NAPOT_NC_BUF * 256 * 256
                                 + ENTRY_NAPOT_NC_BUF * 256 * 256 * 256]}

\* __hpm_start_rust has enabled the caches and calls the configurator
PmaInit ==
    /\ pc = "pma_config"
    /\ regs = ResetRegs
    /\ mstatus = [mie |-> FALSE, mpie |-> FALSE, sie |-> FALSE, fs |-> 1]
    /\ mcause = NoTrap
    /\ mtval = 0
    /\ mepc = "none"
    /\ pma_writes = <<>>
    /\ accesses = <<>>
    /\ plic = PlicAtReset
    /\ loop_i = 0
    /\ calls = <<>>
    /\ trap_regs = [regs |-> ResetRegs, sp |-> 0]
    /\ main_calls = 0
    /\ misc = [cy |-> FALSE, vec_plic |-> FALSE, gp |-> TRUE]
    /\ pre_init_calls = 1
    /\ hpm67_fix \in BOOLEAN
    /\ pma_noncacheable \in BOOLEAN
    /\ debug_build \in BOOLEAN
    /\ overridden = {}
    /\ mie = {}
    /\ \E start \in PmaStarts, rtt \in PmaRttAddrs :
          \E end \in {start + l : l \in PmaLengths} \cup
                      {start - l : l \in {k \in PmaLengths : k <= start}} :
             /\ end < AddrSpace
             /\ sym = PmaLayout(start, end, rtt)
    /\ sp = sym.sstack
    /\ mtvec = CodeAddr("_pre_init_trap")
    /\ pma_reset \in PmaFound
    /\ pma = pma_reset
    /\ mem = BootMem(sym)
    /\ mem0 = mem
    /\ cache = [ic |-> TRUE, dc |-> TRUE, inval |-> TRUE, lines |-> NoLines]
    /\ cache_reset = CacheAtReset
    /\ stack = [a \in StackAddrs(sym) |-> JunkWord]

PmaNext ==
    \/ NoPma
    \/ Pma67Entry0
    \/ Pma67Entry1
    \/ Pma67Csrw
    \/ Pma67Fence
    \/ RttCheck
    \/ RttWriteAddr
    \/ RttCsrw
    \/ RttFence
    \/ NcCheck
    \/ NcAssert
    \/ NcWriteAddr
    \/ NcCsrw
    \/ NcFence

PmaSpec == PmaInit /\ [][PmaNext]_vars

----------------------------------------------------------------------------
(* The boot entered with the data cache in any state: after a hardware
   reset, or from an execution or debugger session that left it on or left
   lines in it *)

\* the word a line left by the earlier execution holds
StaleWord == JunkWord + 2

\* a line on every RAM word, none on the flash image
StaleLines == [a \in DOMAIN mem |-> IF a < 4 * W THEN NoLine ELSE StaleWord]

CacheFound ==
    {[ic |-> FALSE, dc |-> d, inval |-> FALSE, lines |-> l] :
        d \in BOOLEAN, l \in {NoLines, StaleLines}}

CacheInit ==
    /\ InitBoot
    /\ cache \in CacheFound
    /\ cache_reset = cache

CacheSpec == CacheInit /\ [][Next]_vars


---------------------------------------------------------------------------
(* Vocabulary of the properties *)

SetupPcs ==
    {"set_threshold", "claim_loop", "inten_loop", "set_cy", "write_mtvec",
     "set_vectored", "set_vec_plic", "set_mie", "set_sie", "set_mext"}

ConfiguratorPcs ==
    {"ic_enable", "dc_enable", "dc_invalidate_all", "pma_config",
     "pma67_entry1", "pma67_csrw", "pma67_fence",
     "rtt_write_addr", "rtt_csrw", "rtt_fence",
     "nc_assert", "nc_write_addr", "nc_csrw", "nc_fence"}

\* the positions at which the placeholder is the installed trap vector
PlaceholderWindow ==
    {"clear_mstatus", "clear_mie", "call_pre_init", "__pre_init",
     "call_hpm_start_rust", "set_fs", "call_setup_interrupts",
     "set_threshold", "claim_loop", "inten_loop", "set_cy", "write_mtvec"}
    \cup {InitPc(r) : r \in RegionSet} \cup {LoopPc(r) : r \in RegionSet}
    \cup ConfiguratorPcs

\* the trap dispatcher has returned to its assembly caller, or further
DispatchReturned == pc \in {"rust_return", "restore", "mret", "main"}

\* all seven steps of setup_interrupts have taken effect
SetupComplete ==
    /\ plic.threshold = 0
    /\ plic.claimed = 0..(PlicSources - 1)
    /\ \A i \in DOMAIN plic.inten : plic.inten[i] = 0
    /\ misc.cy
    /\ mtvec = CodeAddr("__INTERRUPTS")
    /\ plic.vectored /\ misc.vec_plic
    /\ mstatus.mie /\ mstatus.sie /\ 11 \in mie

\* region r holds what its initialization leaves: for a copy-in region the
\* load image as it was at the start, for a zero-fill region zeros
RegionInitialized(r) ==
    \A a \in WordsIn(RegionStart(r), RegionEnd(r)) :
        View[a] = IF r \in CopyRegions
                  THEN mem0[RegionSrc(r) + (a - RegionStart(r))]
                  ELSE 0

\* region r still holds what it held at reset
RegionUntouched(r) ==
    \A a \in WordsIn(RegionStart(r), RegionEnd(r)) : View[a] = mem0[a]

\* the Interrupt Controller Initializer has started
SetupStarted ==
    \/ pc \in SetupPcs
    \/ pc = "call_main"
    \/ main_calls > 0
    \/ pc \in {"_pre_init_trap", "vector_table_as_code"} /\ mepc \in SetupPcs

\* the Configurator has enabled both caches, invalidated the data cache and
\* programmed and fenced every memory-attribute entry the build asks for
ConfiguratorDone ==
    /\ cache.ic /\ cache.dc /\ cache.inval
    /\ (hpm67_fix /\ sym.SEGGER_RTT # 0) => pma.fenced
    /\ (pma_noncacheable /\ sym.noncacheable_end > sym.noncacheable_start)
          => pma.fenced

IsPrefix(s, t) ==
    /\ Len(s) <= Len(t)
    /\ \A i \in 1..Len(s) : s[i] = t[i]

\* the trap frame of the current trap: 64 bytes below the interrupted sp
FramePtr == trap_regs.sp - FrameBytes

\* the architectural names of the exception codes that have a handler slot
ExceptionName(code) ==
    CASE code = 0 -> "InstructionMisaligned"
      [] code = 1 -> "InstructionFault"
      [] code = 2 -> "IllegalInstruction"
      [] code = 3 -> "Breakpoint"
      [] code = 4 -> "LoadMisaligned"
      [] code = 5 -> "LoadFault"
      [] code = 6 -> "StoreMisaligned"
      [] code = 7 -> "StoreFault"
      [] code = 8 -> "UserEnvCall"
      [] code = 9 -> "SupervisorEnvCall"
      [] code = 11 -> "MachineEnvCall"
      [] code = 12 -> "InstructionPageFault"
      [] code = 13 -> "LoadPageFault"
      [] code = 15 -> "StorePageFault"

InterruptName(code) ==
    CASE code = 1 -> "SupervisorSoft"
      [] code = 3 -> "MachineSoft"
      [] code = 5 -> "SupervisorTimer"
      [] code = 7 -> "MachineTimer"
      [] code = 9 -> "SupervisorExternal"
      [] code = 11 -> "MachineExternal"

\* what a normally dispatched exception invokes, in order
ExceptionCalls(code) ==
    IF code \in (0..15) \ {10, 14}
    THEN << [sym |-> ExceptionName(code), arg |-> FramePtr],
            [sym |-> "ExceptionHandler", arg |-> FramePtr] >>
    ELSE << [sym |-> "ExceptionHandler", arg |-> FramePtr] >>

\* what a core-local interrupt invokes
InterruptCalls(code) ==
    IF code \in {1, 3, 5, 7, 9, 11}
    THEN << [sym |-> InterruptName(code), arg |-> NoArg] >>
    ELSE << [sym |-> "DefaultHandler", arg |-> NoArg] >>

\* the spurious illegal-instruction signature of the erratum
SpuriousIllegal ==
    mcause.exc /\ mcause.code = 2 /\ mtval = 0

\* the last trap entered the dispatcher (it was taken with the real vector)
Dispatched == mcause # NoTrap /\ mepc = "main"

---------------------------------------------------------------------------
(* Boot ordering *)

\* C1: main is entered at most once, a hart that is in main has entered it
\* exactly once, and the step that enters main is taken only when every
\* step of setup_interrupts has taken effect (PLIC threshold 0, all 128
\* sources claim-completed, the four enable words clear, the cycle counter
\* enabled, mtvec at the vector table, vectored mode on in PLIC and core,
\* MIE, SIE and the machine-external enable set).
C1_MainOnceAfterSetup ==
    /\ [](main_calls \in {0, 1} /\ (pc = "main" => main_calls = 1))
    /\ [][main_calls' # main_calls
            => (SetupComplete /\ main_calls = 0 /\ main_calls' = 1
                /\ pc = "call_main" /\ pc' = "main")]_vars

\* main is running after a trap that was dispatched and returned
C1_Witness ==
    pc = "main" /\ main_calls = 1 /\ Dispatched /\ Len(calls) = 2

\* C2 as stated: every region, the non-cacheable data and bss regions
\* included, is initialized once the instruction cache is enabled, and the
\* Configurator is finished once the Interrupt Controller Initializer starts.
C2_AllRegionsBeforeConfigurator ==
    /\ cache.ic => \A r \in RegionSet : RegionInitialized(r)
    /\ SetupStarted => ConfiguratorDone

\* C2 amended: the five regions of _hpm_start are initialized once the
\* instruction cache is enabled; the non-cacheable data and bss regions still
\* hold their reset contents while the Configurator runs and are initialized,
\* with the Configurator finished, once the Initializer starts.
C2_RegionsAroundConfigurator ==
    /\ cache.ic => \A r \in AsmRegions : RegionInitialized(r)
    /\ pc \in ConfiguratorPcs =>
          RegionUntouched("nc_data") /\ RegionUntouched("nc_bss")
    /\ pc \in {"init_nc_data", "loop_nc_data", "init_nc_bss", "loop_nc_bss"}
          => ConfiguratorDone
    /\ SetupStarted =>
          ConfiguratorDone /\ \A r \in RegionSet : RegionInitialized(r)

\* the Configurator is finished, the caches are on and the non-cacheable bss
\* is being zeroed: its word is not zero yet
C2_Witness ==
    /\ pc = "loop_nc_bss"
    /\ pma.fenced /\ cache.ic /\ cache.dc
    /\ RegionInitialized("nc_data")
    /\ ~RegionInitialized("nc_bss")
    /\ \A r \in AsmRegions : RegionInitialized(r)

\* C3 as stated: until control is transferred to main the global interrupt
\* enable is off.
C3_MieOffUntilMain ==
    main_calls = 0 => ~mstatus.mie

\* C3 amended: until control is transferred to main the global interrupt
\* enable is off except in the tail of setup_interrupts: it is on exactly
\* from mstatus::set_mie() (step 7) to the call of main.
C3_MieOffUntilSetMie ==
    main_calls = 0 => (mstatus.mie <=> pc \in {"set_sie", "set_mext", "call_main"})

\* setup_interrupts has returned with MIE set and main is not yet entered
C3_Witness ==
    pc = "call_main" /\ mstatus.mie /\ main_calls = 0 /\ 11 \in mie

\* C4: a trap taken while the placeholder is the installed vector (from the
\* placeholder's installation to the write of the real table to mtvec)
\* enters the placeholder; the placeholder never changes anything again, no
\* handler or hook has been invoked and main is never entered.
C4_PlaceholderTrapSpins ==
    /\ [][(pc \in PlaceholderWindow /\ mcause' # mcause)
            => pc' = "_pre_init_trap"]_vars
    /\ [][pc = "_pre_init_trap" => UNCHANGED vars]_vars
    /\ [](pc = "_pre_init_trap" => (calls = <<>> /\ main_calls = 0
                                     /\ mepc \in PlaceholderWindow))

\* a store fault in the .data copy loop landed in the placeholder
C4_Witness ==
    /\ pc = "_pre_init_trap"
    /\ mepc = "loop_data"
    /\ mcause = [exc |-> TRUE, code |-> 7]

---------------------------------------------------------------------------
(* Trap dispatch *)

\* positions inside a handler call or a default hook
HandlerPcs ==
    {"call_exception", "call_ExceptionHandler", "call_interrupt",
     "call_DefaultHandler", "DefaultExceptionHandler", "DefaultInterruptHandler"}

\* positions at which the trap frame is live: from the call of the Rust
\* dispatcher to the restore sequence
FrameLivePcs ==
    {"call_rust", "_start_rust_CORE_LOCAL", "rust_return", "restore"}
    \cup HandlerPcs

\* the trap frame holds the sixteen registers as they were at trap entry, in
\* the order ra, t0-t6, a0-a7
FrameHoldsEntryRegs ==
    \A i \in 1..16 :
        stack[FramePtr + 4 * (i - 1)] = trap_regs.regs[RegNames[i]]

\* C5: for an exception that the erratum check does not suppress, the
\* handlers invoked so far are always an initial part of: the per-code
\* handler with the trap frame and then the universal hook with the trap
\* frame (codes 0..15 except 10 and 14), or the universal hook alone (codes
\* 10, 14 and 16 up); when the dispatcher has returned they are all of it.
C5_ExceptionDispatch ==
    (Dispatched /\ mcause.exc /\ ~(hpm67_fix /\ SpuriousIllegal)) =>
        /\ IsPrefix(calls, ExceptionCalls(mcause.code))
        /\ pc = "call_ExceptionHandler" =>
              Len(calls) = Len(ExceptionCalls(mcause.code)) - 1
        /\ DispatchReturned => calls = ExceptionCalls(mcause.code)

\* an illegal-instruction exception with non-zero mtval went through its
\* per-code handler and the universal hook and is about to return
C5_Witness ==
    /\ pc = "mret"
    /\ mcause = [exc |-> TRUE, code |-> 2] /\ mtval = 1
    /\ calls = << [sym |-> "IllegalInstruction", arg |-> sp - 64],
                  [sym |-> "ExceptionHandler", arg |-> sp - 64] >>

\* C6: for a core-local interrupt the handlers invoked so far are always an
\* initial part of: the table handler of the code, without argument (codes
\* 1, 3, 5, 7, 9, 11), or the default interrupt hook (every other code); when
\* the dispatcher has returned exactly that one call was made.  The
\* universal exception hook is not among them.
C6_InterruptDispatch ==
    (Dispatched /\ ~mcause.exc) =>
        /\ IsPrefix(calls, InterruptCalls(mcause.code))
        /\ DispatchReturned => calls = InterruptCalls(mcause.code)
        /\ pc \notin {"call_exception", "call_ExceptionHandler",
                      "DefaultExceptionHandler"}

\* the machine-timer interrupt ran its handler once and is about to return
C6_Witness ==
    /\ pc = "mret"
    /\ mcause = [exc |-> FALSE, code |-> 7]
    /\ calls = << [sym |-> "MachineTimer", arg |-> NoArg] >>

\* C7: while the Rust dispatcher and the handlers run (so before the cause
\* is read) the trap frame holds the sixteen caller-saved registers as they
\* were at trap entry; at mret the registers hold those values again and sp
\* is what it was at trap entry.
C7_FramePreserved ==
    /\ (Dispatched /\ pc \in FrameLivePcs) =>
           (FrameHoldsEntryRegs /\ sp = trap_regs.sp - 64)
    /\ pc = "mret" => (regs = trap_regs.regs /\ sp = trap_regs.sp)

\* the application's registers are back at mret after two handlers ran
C7_Witness ==
    /\ pc = "mret"
    /\ trap_regs.regs = AppRegs /\ regs = AppRegs
    /\ sp = sym.sstack
    /\ Len(calls) = 2

\* C8: with the errata fix, an exception with code 2 and mtval 0 invokes no
\* handler and goes straight from the cause check to the return; every other
\* trap (code 2 with mtval # 0, any other exception, any interrupt) and,
\* without the fix, every trap has made its normal calls when the dispatcher
\* returns.
C8_ErrataSuppression ==
    Dispatched =>
        IF hpm67_fix /\ SpuriousIllegal
        THEN calls = <<>> /\ pc \notin HandlerPcs
        ELSE DispatchReturned =>
                 calls = IF mcause.exc THEN ExceptionCalls(mcause.code)
                         ELSE InterruptCalls(mcause.code)

\* the spurious illegal-instruction exception returns with no handler run
C8_Witness ==
    /\ pc = "mret"
    /\ hpm67_fix
    /\ mcause = [exc |-> TRUE, code |-> 2] /\ mtval = 0
    /\ calls = <<>>

\* C9: with no handler overridden, a trap that has invoked a handler is in
\* a default hook; a default hook never takes a step that changes anything,
\* so the dispatcher never returns; the only trap that returns is the
\* erratum-suppressed one, which invokes nothing.
C9_DefaultHooksFailStop ==
    /\ [][(pc \in {"DefaultExceptionHandler", "DefaultInterruptHandler"})
            => (vars' = vars)]_vars
    /\ []((overridden = {} /\ Dispatched /\ calls # <<>>) =>
            /\ Len(calls) = 1
            /\ pc = IF mcause.exc THEN "DefaultExceptionHandler"
                    ELSE "DefaultInterruptHandler")
    /\ []((overridden = {} /\ Dispatched /\ DispatchReturned) =>
            (hpm67_fix /\ SpuriousIllegal))

\* an interrupt with an absent slot sits in the default interrupt hook
C9_Witness ==
    /\ pc = "DefaultInterruptHandler"
    /\ overridden = {}
    /\ mcause = [exc |-> FALSE, code |-> 0]
    /\ calls = << [sym |-> "DefaultHandler", arg |-> NoArg] >>

---------------------------------------------------------------------------
(* Region initialization *)

\* the initialization of region r is over
InitializeDone(r) == pc \notin {InitPc(r), LoopPc(r)}

\* the destination of r starts strictly inside its source range
DestInsideSource(r) ==
    /\ RegionSrc(r) < RegionStart(r)
    /\ RegionStart(r) < RegionSrc(r) + (RegionEnd(r) - RegionStart(r))

\* C10 as stated: after the initialization of any non-empty copy-in region
\* the destination holds what the source range held when it began, whatever
\* the descriptor, overlapping source and destination included.
C10_CopyFidelityAnyDescriptor ==
    \A r \in CopyRegions :
        (RegionStart(r) < RegionEnd(r) /\ InitializeDone(r))
            => RegionInitialized(r)

\* C10 amended: the same for every descriptor whose destination does not
\* start strictly inside the source range.
C10_CopyFidelity ==
    \A r \in CopyRegions :
        (RegionStart(r) < RegionEnd(r) /\ InitializeDone(r)
         /\ ~DestInsideSource(r))
            => RegionInitialized(r)

\* a two-word copy to a destination one word below its source (the ranges
\* overlap) is over, it changed memory and the destination is faithful
C10_Witness ==
    \E r \in CopyRegions :
        /\ InitializeDone(r)
        /\ RegionEnd(r) = RegionStart(r) + 8
        /\ RegionSrc(r) = RegionStart(r) + 4
        /\ mem # mem0
        /\ RegionInitialized(r)


\* C11: after the initialization of a zero-fill region every word of
\* [dest-start, dest-end) is zero, whatever memory held before.
C11_ZeroFill ==
    \A r \in RegionSet \ CopyRegions :
        InitializeDone(r) =>
            \A a \in WordsIn(RegionStart(r), RegionEnd(r)) : mem[a] = 0

\* a two-word zero-fill region that held no zero is now all zero
C11_Witness ==
    \E r \in RegionSet \ CopyRegions :
        /\ InitializeDone(r)
        /\ RegionEnd(r) = RegionStart(r) + 8
        /\ \A a \in WordsIn(RegionStart(r), RegionEnd(r)) :
               mem0[a] # 0 /\ mem[a] = 0


\* every region of the layout is empty
AllRegionsEmpty == \A r \in RegionSet : RegionStart(r) = RegionEnd(r)

\* C12: the initialization of an empty region, copy-in or zero-fill, is one
\* step that loads nothing, stores nothing and leaves memory as it is, from
\* whatever state it is taken; its loop body is never entered; however many
\* empty regions are initialized in a row, memory is what it was and no
\* access was made.
C12_EmptyRegionNoOp ==
    /\ [][\A r \in RegionSet :
            (pc = InitPc(r) /\ RegionStart(r) = RegionEnd(r)) =>
                (mem' = mem /\ accesses' = accesses /\ pc' = DonePc(r))]_vars
    /\ [](\A r \in RegionSet :
            RegionStart(r) = RegionEnd(r) => pc # LoopPc(r))
    /\ [](AllRegionsEmpty => (mem = mem0 /\ accesses = <<>>))

\* five empty regions at a non-zero address were initialized one after the
\* other and nothing was accessed
C12_Witness ==
    /\ pc = "call_hpm_start_rust"
    /\ AllRegionsEmpty
    /\ sym.sdata = 8 /\ sym.sidata = 4
    /\ accesses = <<>> /\ mem = mem0


\* C13: with every region empty, a boot in which no trap is taken (the
\* pre-initialization hook returns, no access faults) eventually enters
\* main.
C13_EmptyRegionsReachMain ==
    AllRegionsEmpty => <>(pc = "main" \/ mcause # NoTrap)

\* main was entered with every region empty, without any memory access by
\* the region loops and without a trap
C13_Witness ==
    /\ pc = "main" /\ main_calls = 1
    /\ AllRegionsEmpty
    /\ accesses = <<>>
    /\ mcause = NoTrap

---------------------------------------------------------------------------
(* Interrupt controller initialization *)

\* steps 1-6 of setup_interrupts have taken effect
EnablePrerequisites ==
    /\ plic.threshold = 0
    /\ plic.claimed = 0..127
    /\ \A i \in 0..3 : plic.inten[i] = 0
    /\ misc.cy
    /\ mtvec = CodeAddr("__INTERRUPTS")
    /\ plic.vectored /\ misc.vec_plic

\* C14: until main is entered each effect of setup_interrupts is present
\* only if the effects of all earlier steps are (threshold, claim-completes,
\* enable words, cycle counter, mtvec, controller vectored mode, core
\* vectored mode, MIE, SIE, machine-external enable), and each of the three
\* enable bits is set by a step taken with threshold 0, all 128 sources
\* claim-completed, all 4 enable words zero, mtvec at the vector table and
\* vectored mode on in controller and core.
C14_SetupOrder ==
    /\ [](main_calls = 0 =>
            /\ plic.claimed # {} => plic.threshold = 0
            /\ (\E i \in 0..3 : plic.inten[i] = 0) => plic.claimed = 0..127
            /\ misc.cy => \A i \in 0..3 : plic.inten[i] = 0
            /\ mtvec = CodeAddr("__INTERRUPTS") => misc.cy
            /\ plic.vectored => mtvec = CodeAddr("__INTERRUPTS")
            /\ misc.vec_plic => plic.vectored
            /\ mstatus.mie => misc.vec_plic
            /\ mstatus.sie => mstatus.mie
            /\ pc \in SetupPcs => mie = {}
            /\ pc = "call_main" => (mstatus.sie /\ mie = {11}))
    /\ [][(main_calls = 0 /\ (\/ (~mstatus.mie /\ mstatus'.mie)
                               \/ (~mstatus.sie /\ mstatus'.sie)
                               \/ (11 \notin mie /\ 11 \in mie')))
            => EnablePrerequisites]_vars

\* the global enable has just been set: threshold 0, enable words zero
C14_Witness ==
    /\ pc = "set_sie"
    /\ mstatus.mie /\ ~mstatus.sie
    /\ plic.threshold = 0
    /\ \A i \in 0..3 : plic.inten[i] = 0
    /\ plic.claimed = 0..127


----------------------------------------------------------------------------
(* Memory-attribute entries *)

\* the writes of one register, in program order
WritesTo(reg) == SelectSeq(pma_writes, LAMBDA w : w[1] = reg)

RttRequested == sym.SEGGER_RTT # 0

NcRequested == sym.noncacheable_end > sym.noncacheable_start

\* the erratum entry's field and the general entry's field, each present
\* when its entry is requested
Composite ==
    (IF RttRequested THEN ENTRY_NAPOT_NC_BUF ELSE 0)
    + (IF NcRequested THEN ENTRY_NAPOT_NC_BUF_AMO * 256 ELSE 0)

PmaDone == pc = "init_nc_data"

\* C15: with both features the configuration register is written exactly
\* once, with the composite of the requested entries; until that write the
\* register is as the configurator found it, so the configurator never
\* leaves one of two requested entries enabled and the other not.
C15_SingleCompositeWrite ==
    (hpm67_fix /\ pma_noncacheable) =>
        /\ Len(WritesTo("pmacfg0")) <= 1
        /\ pc \in {"pma67_fence", "init_nc_data"} =>
               WritesTo("pmacfg0") = << <<"pmacfg0", Composite>> >>
        /\ pma.cfg0 = IF WritesTo("pmacfg0") = <<>> THEN pma_reset.cfg0
                       ELSE Composite
        /\ (RttRequested /\ NcRequested /\ WritesTo("pmacfg0") # <<>>) =>
               (EntryOn(pma.cfg0, 0) /\ EntryOn(pma.cfg0, 1))
        /\ (RttRequested /\ NcRequested /\ pma_reset = PmaAtReset) =>
               (EntryOn(pma.cfg0, 0) <=> EntryOn(pma.cfg0, 1))

C15_Witness ==
    /\ hpm67_fix /\ pma_noncacheable
    /\ pc = "pma67_fence"
    /\ RttRequested /\ NcRequested
    /\ pma_reset = PmaAtReset
    /\ pma.cfg0 = ENTRY_NAPOT_NC_BUF + ENTRY_NAPOT_NC_BUF_AMO * 256
    /\ Len(WritesTo("pmaaddr0")) = 1 /\ Len(WritesTo("pmaaddr1")) = 1

\* the general entry holds the encoding of the non-cacheable range and is on
GeneralProgrammed ==
    /\ WritesTo("pmaaddr1") =
           << <<"pmaaddr1", Napot(sym.noncacheable_start,
                                  sym.noncacheable_end - sym.noncacheable_start)>> >>
    /\ pma.addr1 = Napot(sym.noncacheable_start,
                         sym.noncacheable_end - sym.noncacheable_start)
    /\ EntryField(pma.cfg0, 1) = ENTRY_NAPOT_NC_BUF_AMO

\* C16 as stated: with the errata fix enabled and the RTT symbol 0 neither
\* the erratum entry's address register nor its field of the configuration
\* register is written, and the general entry is still programmed when
\* requested.
C16_ErratumEntryNeverWritten ==
    (hpm67_fix /\ ~RttRequested) =>
        /\ WritesTo("pmaaddr0") = <<>>
        /\ pma.addr0 = pma_reset.addr0
        /\ EntryField(pma.cfg0, 0) = EntryField(pma_reset.cfg0, 0)
        /\ (pma_noncacheable /\ NcRequested /\ PmaDone) => GeneralProgrammed

\* C16 amended: with the errata fix enabled and the RTT symbol 0 the erratum
\* entry's address register is never written and the entry is never turned
\* on; with the errata fix alone no register is written at all; with both
\* features the one write of the configuration register covers the erratum
\* entry's field with 0, and the general entry is still programmed when
\* requested.
C16_ErratumEntryNotProgrammed ==
    (hpm67_fix /\ ~RttRequested) =>
        /\ WritesTo("pmaaddr0") = <<>>
        /\ pma.addr0 = pma_reset.addr0
        /\ \A i \in 1..Len(pma_writes) :
               pma_writes[i][1] = "pmacfg0" => EntryField(pma_writes[i][2], 0) = 0
        /\ EntryField(pma.cfg0, 0) =
               IF WritesTo("pmacfg0") = <<>> THEN EntryField(pma_reset.cfg0, 0)
               ELSE 0
        /\ ~pma_noncacheable => (pma_writes = <<>> /\ pma = pma_reset)
        /\ (pma_noncacheable /\ PmaDone) => Len(WritesTo("pmacfg0")) = 1
        /\ (pma_noncacheable /\ NcRequested /\ PmaDone) => GeneralProgrammed

C16_Witness ==
    /\ hpm67_fix /\ pma_noncacheable
    /\ ~RttRequested /\ NcRequested
    /\ PmaDone
    /\ EntryOn(pma_reset.cfg0, 0)
    /\ ~EntryOn(pma.cfg0, 0)
    /\ GeneralProgrammed

\* (base + length/2 - 1) >> 2 over the integers
ExactNapot(base, length) == (base + (length \div 2) - 1) \div 4

NcLength == sym.noncacheable_end - sym.noncacheable_start

\* no step of the configurator programs the general entry
GeneralNotProgrammed ==
    /\ WritesTo("pmaaddr1") = <<>>
    /\ pma.addr1 = pma_reset.addr1
    /\ EntryOn(pma.cfg0, 1) => pma.cfg0 = pma_reset.cfg0
    /\ \A i \in 1..Len(pma_writes) :
           pma_writes[i][1] = "pmacfg0" => ~EntryOn(pma_writes[i][2], 1)

\* C17 as stated: every address-register write is the exact encoding of its
\* entry, computed without overflow or underflow, and an empty general range
\* is not programmed in any build configuration.
C17_NapotExactAlways ==
    /\ \A i \in 1..Len(pma_writes) :
          /\ pma_writes[i][1] = "pmaaddr0" =>
                /\ ~NapotOverflows(AlignDown4K(sym.SEGGER_RTT), RttWindow)
                /\ pma_writes[i][2] = ExactNapot(AlignDown4K(sym.SEGGER_RTT), RttWindow)
          /\ pma_writes[i][1] = "pmaaddr1" =>
                /\ ~NapotOverflows(sym.noncacheable_start, NcLength)
                /\ pma_writes[i][2] = ExactNapot(sym.noncacheable_start, NcLength)
    /\ ~NcRequested => GeneralNotProgrammed

\* C17 amended: the same, for every entry whose base + length/2 is at least
\* 1; for base 0 and length 1 the subtraction underflows, where a build with
\* overflow checks halts before the write and a build without them writes
\* the wrapped value.
C17_NapotExact ==
    /\ \A i \in 1..Len(pma_writes) :
          /\ pma_writes[i][1] = "pmaaddr0" =>
                /\ ~NapotOverflows(AlignDown4K(sym.SEGGER_RTT), RttWindow)
                /\ pma_writes[i][2] = ExactNapot(AlignDown4K(sym.SEGGER_RTT), RttWindow)
          /\ pma_writes[i][1] = "pmaaddr1" =>
                IF sym.noncacheable_start + (NcLength \div 2) >= 1
                THEN /\ ~NapotOverflows(sym.noncacheable_start, NcLength)
                     /\ pma_writes[i][2] = ExactNapot(sym.noncacheable_start, NcLength)
                ELSE /\ ~debug_build
                     /\ sym.noncacheable_start = 0 /\ NcLength = 1
                     /\ pma_writes[i][2] = (AddrSpace - 1) \div 4
    /\ (pma_noncacheable /\ NcRequested /\ debug_build
            /\ sym.noncacheable_start + (NcLength \div 2) < 1) =>
          (WritesTo("pmaaddr1") = <<>> /\ ~PmaDone)
    /\ ~NcRequested => GeneralNotProgrammed

\* both entries programmed, the general one with base 0x1000, length 0x1000
C17_Witness ==
    /\ PmaDone
    /\ hpm67_fix /\ pma_noncacheable
    /\ sym.noncacheable_start = RttWindow /\ NcLength = RttWindow
    /\ sym.SEGGER_RTT = RttWindow + 5 * WordSize
    /\ pma.addr1 = (RttWindow + (RttWindow \div 2) - 1) \div 4
    /\ pma.addr0 = pma.addr1
    /\ Len(WritesTo("pmaaddr0")) = 1 /\ Len(WritesTo("pmaaddr1")) = 1

\* the length is a power of two
PowerOfTwoLength == \E k \in 0..AddrBits : NcLength = 2 ^ k

\* a non-empty range that is not naturally aligned: its length is not a
\* power of two or its base is not a multiple of its length
Malformed ==
    /\ NcRequested
    /\ (~PowerOfTwoLength \/ sym.noncacheable_start % NcLength # 0)

\* C18: in a debug build every configuration that programs the general
\* entry halts on a malformed non-empty range before the entry is programmed
\* (no address write, entry never enabled, configurator never completes); in
\* a release build the entry is programmed without any check.
C18_DebugAssertsHalt ==
    /\ (debug_build /\ pma_noncacheable /\ Malformed) =>
          (GeneralNotProgrammed /\ ~PmaDone)
    /\ (~debug_build /\ pma_noncacheable /\ NcRequested /\ PmaDone) =>
          GeneralProgrammed

----------------------------------------------------------------------------
(* Pre-initialization hook *)

\* the positions of _hpm_start before the call of the hook
PreHookPcs == {"_hpm_start", "set_mtvec", "clear_mstatus", "clear_mie",
               "call_pre_init"}

\* C19: the hook is entered once and never again, by the call that follows
\* the setting of sp, gp, the placeholder vector and the disabling of
\* interrupts; while it runs, and at every position before it, the region
\* loops have made no access and memory is as the boot found it.
C19_PreInitOnceBeforeRegions ==
    /\ [](pre_init_calls <= 1)
    /\ [](pre_init_calls = 0 <=> pc \in PreHookPcs)
    /\ [][pre_init_calls' # pre_init_calls =>
              /\ pc = "call_pre_init" /\ pc' = "__pre_init"
              /\ pre_init_calls = 0 /\ pre_init_calls' = 1]_vars
    /\ [](pc = "__pre_init" =>
              /\ pre_init_calls = 1
              /\ sp = sym.sstack
              /\ misc.gp
              /\ mtvec = CodeAddr("_pre_init_trap")
              /\ ~mstatus.mie /\ ~mstatus.sie /\ mie = {}
              /\ accesses = <<>>
              /\ mem = mem0)
    /\ [](pc \in PreHookPcs => (accesses = <<>> /\ mem = mem0))
    /\ [](accesses # <<>> => pre_init_calls = 1)

C19_Witness ==
    /\ pc = "__pre_init"
    /\ pre_init_calls = 1
    /\ sym = FullLayout
    /\ sp = sym.sstack /\ misc.gp /\ mtvec = CodeAddr("_pre_init_trap")
    /\ mie = {}
    /\ accesses = <<>> /\ mem = mem0

----------------------------------------------------------------------------
(* Iterations of initialize *)

Stores == SelectSeq(accesses, LAMBDA x : x.op = "sw")

Loads == SelectSeq(accesses, LAMBDA x : x.op = "lw")

\* (dest-end - dest-start) / wordsize
Iterations(r) == (RegionEnd(r) - RegionStart(r)) \div WordSize

\* C20: initialize of a region with word-aligned dest-start <= dest-end
\* makes one store per pass, the i-th at dest-start + (i-1) words, and in a
\* copy one load per pass, the i-th at source-start + (i-1) words; it never
\* makes more than (dest-end - dest-start)/wordsize passes, has made exactly
\* that many when it is done, and leaves every word outside
\* [dest-start, dest-end) as it was.
C20_ExactIterations ==
    /\ [](\A r \in RegionSet : RegionStart(r) < RegionEnd(r) =>
            /\ Len(Stores) <= Iterations(r)
            /\ \A i \in 1..Len(Stores) :
                   Stores[i].addr = RegionStart(r) + WordSize * (i - 1)
            /\ IF r \in CopyRegions
               THEN /\ Len(Loads) = Len(Stores)
                    /\ \A i \in 1..Len(Loads) :
                           Loads[i].addr = RegionSrc(r) + WordSize * (i - 1)
               ELSE Loads = <<>>
            /\ pc = InitPc(r) => accesses = <<>>
            /\ pc = LoopPc(r) =>
                   /\ Len(Stores) < Iterations(r)
                   /\ regs["a0"] = RegionStart(r) + WordSize * Len(Stores)
                   /\ r \in CopyRegions =>
                          regs["a2"] = RegionSrc(r) + WordSize * Len(Stores)
            /\ InitializeDone(r) => Len(Stores) = Iterations(r)
            /\ \A a \in CopyAddrs \ WordsIn(RegionStart(r), RegionEnd(r)) :
                   mem[a] = mem0[a])
    /\ [](AllRegionsEmpty => (accesses = <<>> /\ mem = mem0))
    /\ [][\A r \in RegionSet : pc = LoopPc(r) =>
              /\ Len(Stores') = Len(Stores) + 1
              /\ pc' \in {LoopPc(r), DonePc(r)}]_vars

C20_Witness ==
    \E r \in CopyRegions :
        /\ Iterations(r) = 2
        /\ RegionSrc(r) # RegionStart(r)
        /\ pc = DonePc(r)
        /\ Len(Stores) = 2 /\ Len(Loads) = 2
        /\ regs["a0"] = RegionEnd(r)
        /\ regs["a2"] = RegionSrc(r) + 2 * WordSize

----------------------------------------------------------------------------
(* Whole-register write of the configuration register *)

\* the entries of pmacfg0
PmaEntries == 0..3

\* the entry the call programs: entry 0 on the paths of the errata fix when
\* the RTT symbol is linked, entry 1 on the paths of the non-cacheable
\* region when the range is non-empty
ProgrammedEntry(n) ==
    \/ n = 0 /\ hpm67_fix /\ RttRequested
    \/ n = 1 /\ pma_noncacheable /\ NcRequested

\* the call returns before any register access
EarlyReturn ==
    \/ hpm67_fix /\ ~pma_noncacheable /\ ~RttRequested
    \/ pma_noncacheable /\ ~hpm67_fix /\ ~NcRequested

\* C23: once the configurator has written the configuration register, the
\* field of every entry the call did not program is 0 whatever it held
\* before the call; when the configurator returns early the register is
\* never written and keeps the value found.
C23_WholeRegisterOverwritten ==
    /\ WritesTo("pmacfg0") # <<>> =>
          \A n \in PmaEntries : ~ProgrammedEntry(n) => EntryField(pma.cfg0, n) = 0
    /\ EarlyReturn => (WritesTo("pmacfg0") = <<>> /\ pma.cfg0 = pma_reset.cfg0)
    /\ (PmaDone /\ ~EarlyReturn /\ (hpm67_fix \/ pma_noncacheable)) =>
          Len(WritesTo("pmacfg0")) = 1

C23_Witness ==
    /\ PmaDone
    /\ hpm67_fix /\ ~pma_noncacheable /\ RttRequested
    /\ \A n \in PmaEntries : EntryOn(pma_reset.cfg0, n)
    /\ pma.cfg0 = ENTRY_NAPOT_NC_BUF

----------------------------------------------------------------------------
(* NAPOT round trip *)

\* the length is a power of two >= 8 and the base is aligned to it
NaturallyAligned ==
    /\ NcRequested
    /\ PowerOfTwoLength /\ NcLength >= 8
    /\ sym.noncacheable_start % NcLength = 0

\* C24: the value programmed for a naturally aligned range of at least 8
\* bytes decodes to exactly [base, base + length); the value programmed for
\* the erratum entry decodes to a 4 KiB window that holds the RTT address.
C24_NapotRoundTrip ==
    \A i \in 1..Len(pma_writes) :
        /\ (pma_writes[i][1] = "pmaaddr1" /\ NaturallyAligned) =>
              /\ DecodedBase(pma_writes[i][2]) = sym.noncacheable_start
              /\ DecodedSize(pma_writes[i][2]) = NcLength
        /\ pma_writes[i][1] = "pmaaddr0" =>
              /\ DecodedSize(pma_writes[i][2]) = RttWindow
              /\ DecodedBase(pma_writes[i][2]) <= sym.SEGGER_RTT
              /\ sym.SEGGER_RTT < DecodedBase(pma_writes[i][2]) + RttWindow

C24_Witness ==
    /\ PmaDone
    /\ hpm67_fix /\ pma_noncacheable
    /\ sym.noncacheable_start = AddrSpace \div 2
    /\ NcLength = AddrSpace \div 4
    /\ sym.SEGGER_RTT = AddrSpace - 1
    /\ Len(WritesTo("pmaaddr0")) = 1 /\ Len(WritesTo("pmaaddr1")) = 1
    /\ DecodedBase(pma.addr1) = AddrSpace \div 2
    /\ DecodedSize(pma.addr1) = AddrSpace \div 4
    /\ DecodedBase(pma.addr0) = AddrSpace - RttWindow

----------------------------------------------------------------------------
(* Non-cacheable regions are initialized after the entry is programmed *)

NcLoopPcs == {LoopPc("nc_data"), LoopPc("nc_bss")}

\* the words of the non-cacheable data and bss regions
NcWords ==
    WordsIn(RegionStart("nc_data"), RegionEnd("nc_data"))
    \cup WordsIn(RegionStart("nc_bss"), RegionEnd("nc_bss"))

\* the stores made so far by the loops of init_noncacheable_sections
NcStores == SelectSeq(accesses, LAMBDA x : x.op = "sw" /\ x.addr \in NcWords)

\* the general entry holds the encoding of the range, is on, and the fence
\* that follows its programming has executed
GeneralEntryInEffect ==
    /\ Len(WritesTo("pmaaddr1")) = 1
    /\ pma.addr1 = Napot(sym.noncacheable_start, NcLength)
    /\ EntryField(pma.cfg0, 1) = ENTRY_NAPOT_NC_BUF_AMO
    /\ pma.fenced

\* C22: with mark-region-noncacheable and a non-empty range, a store of the
\* non-cacheable data or bss initialization is made only with the general
\* entry programmed and the fence executed; while the data cache is on and
\* the entry is not yet in effect no such store has been made or is about to
\* be made; for a naturally aligned range every such store falls in the
\* window the programmed value decodes to; and each such store bypasses the
\* data cache and reaches memory.
C22_NcInitAfterPma ==
    /\ []((pma_noncacheable /\ NcRequested) =>
            /\ (pc \in NcLoopPcs \/ NcStores # <<>>) => GeneralEntryInEffect
            /\ (cache.dc /\ ~GeneralEntryInEffect) =>
                   (NcStores = <<>> /\ pc \notin NcLoopPcs)
            /\ pc \in ConfiguratorPcs => NcStores = <<>>
            /\ NaturallyAligned =>
                   \A i \in 1..Len(NcStores) : InWindow(NcStores[i].addr, pma.addr1))
    /\ [][(pma_noncacheable /\ NcRequested /\ pc \in NcLoopPcs) =>
             (~Cached(regs["a0"]) /\ mem'[regs["a0"]] = View'[regs["a0"]])]_vars

C22_Witness ==
    /\ pma_noncacheable /\ NcRequested
    /\ pc = LoopPc("nc_bss")
    /\ Len(NcStores) = 1
    /\ cache.dc
    /\ GeneralEntryInEffect
    /\ NaturallyAligned

----------------------------------------------------------------------------
(* Region initialization and the data-cache invalidation *)

\* the memory words of region r hold what its initialization writes
RegionInMemory(r) ==
    \A a \in WordsIn(RegionStart(r), RegionEnd(r)) :
        mem[a] = IF r \in CopyRegions
                 THEN mem0[RegionSrc(r) + (a - RegionStart(r))]
                 ELSE 0

=============================================================================
